---- MODULE Spec2Model ----
(***************************************************************************)
(* Sandboxed execution gateway with a human-in-the-loop approval pipeline. *)
(*                                                                         *)
(*   - HITLApprovalService (services/hitl_approval_service.py) over a      *)
(*     key-value store with TTL (setex / get / sadd / smembers / srem /    *)
(*     expire), modelled at the granularity of the store's primitives;     *)
(*   - the PATCH /approvals/{id} handler (cns/api/system_gateway.py);      *)
(*   - SystemGatewayTool (tools/implementations/system_gateway_tool.py):   *)
(*     classify, queue, wait, send, audit;                                 *)
(*   - GatewayAuditLogger (services/gateway_audit_log.py);                 *)
(*   - PathValidator (deploy/system-gateway/services/path_validator.py);   *)
(*   - the gateway's routers (deploy/system-gateway/routers) and its       *)
(*     event loop (deploy/system-gateway/main.py);                         *)
(*   - TreeIndexer (deploy/system-gateway/services/tree_indexer.py);       *)
(*   - the approval interceptor (services/approval_interceptor.py).        *)
(*                                                                         *)
(* Strings the code inspects character by character (commands, paths,     *)
(* glob patterns) are sequences of one-character strings.                  *)
(***************************************************************************)
EXTENDS Integers, Sequences, FiniteSets, TLC

(***************************************************************************)
(* Bounds of the model.                                                    *)
(***************************************************************************)
NumTasks   == 1     \* adapter operations (SystemGatewayTool.run calls)
NumCallers == 2     \* clients calling approve / reject / PATCH
Quantum    == 30    \* seconds by which the clock advances in one step
MaxTime    == 90   \* the clock stops advancing here

Tasks   == 1..NumTasks
Callers == 1..NumCallers
Ids     == 1..NumTasks          \* one approval id per queue_approval call
Users   == {"u1", "u2"}

\* SystemGatewayTool(user_id): the user of the tool instance that runs task t
UserOf(t) == IF t % 2 = 1 THEN "u1" ELSE "u2"

(***************************************************************************)
(* Program constants.                                                      *)
(***************************************************************************)
ResidualTTL   == 60   \* setex(key, 60, ...) in approve and reject
IndexExtraTTL == 60   \* expire(user_key, ttl + 60) in queue_approval

\* values of system_gateway.hitl_timeout in the configuration
HitlTimeouts == {60, 90}

\* get_hitl_service() builds the service with default_ttl_seconds =
\* hitl_timeout, and the tool waits with max_wait = hitl_timeout
Configs == { [default_ttl |-> h, hitl_timeout |-> h] : h \in HitlTimeouts }

\* max_wait = None in wait_for_decision
NoMaxWait == -1

\* ttl_seconds and max_wait a client of the service passes to queue_approval
\* and wait_for_decision (0 stands for ttl_seconds = None as well: both are
\* replaced by default_ttl)
TTLInputs == {0, 30}
MaxWaitInputs == {NoMaxWait, 0, 30}

None == [absent |-> TRUE]

VARIABLES
    now,        \* the clock (seconds)
    cfg,        \* [default_ttl, hitl_timeout], both read from hitl_timeout
    kv,         \* approval records: id -> None or [rec, exp]
    uidx,       \* per-user index: user -> [ids, exp]
    nextId,     \* ids handed out so far + 1 (uuid4: never reused)
    task,       \* adapter operations: task -> record
    caller,     \* approve / reject / PATCH clients: caller -> record
    last,       \* [id, out]: what the call that ended last answered
    wins,       \* id -> number of approve / reject calls that returned True
    decidedAt,  \* id -> time of the first setex of a terminal status, or -1
    audit,      \* the audit journal: sequence of entries
    sent,       \* requests sent to the gateway container: sequence
    pv,         \* PathValidator.validate: [input, result] of the last call
    gw          \* the gateway container: the file it serves, the request, the response

storeVars == <<kv, uidx, nextId>>
callVars  == <<caller, last, wins, decidedAt>>
toolVars  == <<task, audit, sent>>
gwVars   == <<pv, gw>>
vars     == <<now, cfg, kv, uidx, nextId, task, caller, last, wins, decidedAt, audit, sent, pv, gw>>

(***************************************************************************)
(* The key-value store with TTL.  A key whose TTL has elapsed is absent;   *)
(* the clock action removes it.                                            *)
(***************************************************************************)
\* valkey.get(key)
StoreGet(store, id) == IF store[id] = None THEN None ELSE store[id].rec

\* valkey.setex(key, ttl, value)
StoreSetex(store, id, ttl, rec, t) ==
    [store EXCEPT ![id] = [rec |-> rec, exp |-> t + ttl]]

\* keys whose TTL has elapsed at time t disappear
StoreExpire(store, t) ==
    [id \in DOMAIN store |->
        IF store[id] # None /\ store[id].exp <= t THEN None ELSE store[id]]

EmptyIndex == [ids |-> {}, exp |-> 0]

\* variant with one index key shared by all users
IndexAddExpireShared(index, u, id, ttl, t) ==
    [v \in DOMAIN index |-> [ids |-> index[v].ids \cup {id}, exp |-> t + ttl]]

\* valkey.sadd(user_key, id) followed by valkey.expire(user_key, ttl)
IndexAddExpire(index, u, id, ttl, t) ==
    [index EXCEPT ![u] = [ids |-> index[u].ids \cup {id}, exp |-> t + ttl]]

IndexExpire(index, t) ==
    [u \in DOMAIN index |->
        IF index[u].ids # {} /\ index[u].exp <= t THEN EmptyIndex ELSE index[u]]

(***************************************************************************)
(* HITLApprovalService                                                     *)
(***************************************************************************)
\* ApprovalRequest(...) as built by queue_approval
NewRequest(id, u, operation, sensitivity, ttl, t) ==
    [ id          |-> id,
      user_id     |-> u,
      operation   |-> operation,
      sensitivity |-> sensitivity,
      status      |-> "pending",
      created_at  |-> t,
      expires_at  |-> t + ttl ]

\* get_status(approval_id)
GetStatus(id) == StoreGet(kv, id)

\* variant of the guard of approve / reject that only asks for the record to
\* exist
NotDecidableAbsentOnly(request) == request = None

\* the guard shared by approve and reject: "not request or status != PENDING"
NotDecidable(request) == request = None \/ request.status # "pending"

\* ttl = ttl_seconds or self.default_ttl
EffectiveTTL(ttl_seconds) == IF ttl_seconds # 0 THEN ttl_seconds ELSE cfg.default_ttl

StatusOf(act) == IF act = "approve" THEN "approved" ELSE "rejected"

(***************************************************************************)
(* Clients of the service: PATCH /approvals/{id}, GET /approvals/{id} and  *)
(* direct approve / reject calls.  approve and reject are a get_status     *)
(* followed by a setex, two requests to the shared store: the store's      *)
(* clock runs on between them, and so do the other clients of the store    *)
(* (workers in other processes or threads).                                *)
(***************************************************************************)
IdleCaller == [pc |-> "idle", id |-> 0, act |-> "-", rec |-> None]

NoOutcome == [id |-> 0, out |-> "-"]

\* the call of c on id ends and answers outcome
Finish(c, id, outcome) ==
    /\ caller' = [caller EXCEPT ![c] = IdleCaller]
    /\ last' = [id |-> id, out |-> outcome]

\* c goes on to service.approve / service.reject
Enter(c, id, act) ==
    /\ caller' = [caller EXCEPT ![c] =
                    [pc |-> "call", id |-> id, act |-> act, rec |-> None]]
    /\ UNCHANGED last

\* update_approval up to the call of service.approve / service.reject; the
\* handler then answers 200 when the call returns True and 500 when it
\* returns False
PatchCheck(c, id, u, act) ==
    /\ caller[c].pc = "idle"
    /\ LET request == GetStatus(id) IN
         IF request = None THEN Finish(c, id, "404")
         ELSE IF request.user_id # u THEN Finish(c, id, "403")
         ELSE IF request.status # "pending" THEN Finish(c, id, "400")
         ELSE Enter(c, id, act)
    /\ UNCHANGED <<now, cfg, storeVars, wins, decidedAt, toolVars, gwVars>>

\* get_approval_status: the answer of GET /approvals/{id} issued by user u
GetApprovalStatus(id, u) ==
    LET request == GetStatus(id) IN
    IF request = None THEN "404"
    ELSE IF request.user_id # u THEN "403"
    ELSE "200"

\* a direct call of service.approve(id) / service.reject(id)
DirectCall(c, id, act) ==
    /\ caller[c].pc = "idle"
    /\ Enter(c, id, act)
    /\ UNCHANGED <<now, cfg, storeVars, wins, decidedAt, toolVars, gwVars>>

\* approve / reject, first half: request = get_status(id) and the guard;
\* the call returns False when the guard fails
CallGet(c) ==
    /\ caller[c].pc = "call"
    /\ LET request == GetStatus(caller[c].id) IN
         IF NotDecidable(request)
         THEN Finish(c, caller[c].id, "false")
         ELSE /\ caller' = [caller EXCEPT ![c].pc = "write", ![c].rec = request]
              /\ UNCHANGED last
    /\ UNCHANGED <<now, cfg, storeVars, wins, decidedAt, toolVars, gwVars>>

\* approve / reject, second half: setex(key, 60, request with the new
\* status); the call returns True
CallSet(c) ==
    /\ caller[c].pc = "write"
    /\ LET id  == caller[c].id
           rec == [caller[c].rec EXCEPT !.status = StatusOf(caller[c].act)]
       IN /\ kv' = StoreSetex(kv, id, ResidualTTL, rec, now)
          /\ wins' = [wins EXCEPT ![id] = @ + 1]
          /\ decidedAt' = [decidedAt EXCEPT ![id] = IF @ = -1 THEN now ELSE @]
          /\ Finish(c, id, "true")
    /\ UNCHANGED <<now, cfg, uidx, nextId, toolVars, gwVars>>

\* the clock advances; keys whose TTL has elapsed disappear
Tick ==
    /\ now + Quantum <= MaxTime
    /\ now' = now + Quantum
    /\ kv' = StoreExpire(kv, now + Quantum)
    /\ uidx' = IndexExpire(uidx, now + Quantum)
    /\ UNCHANGED <<cfg, nextId, callVars, toolVars, gwVars>>

(***************************************************************************)
(* Character-level helpers.  A string is a sequence of one-character       *)
(* strings.                                                                *)
(***************************************************************************)
Uppers == <<"A","B","C","D","E","F","G","H","I","J","K","L","M",
            "N","O","P","Q","R","S","T","U","V","W","X","Y","Z">>
Lowers == <<"a","b","c","d","e","f","g","h","i","j","k","l","m",
            "n","o","p","q","r","s","t","u","v","w","x","y","z">>
Digits == {"0","1","2","3","4","5","6","7","8","9"}

Range(f) == {f[i] : i \in DOMAIN f}

\* str.lower() on one character
LowerChar(ch) ==
    IF ch \in Range(Uppers)
    THEN Lowers[CHOOSE i \in DOMAIN Uppers : Uppers[i] = ch]
    ELSE ch

\* str.lower()
Lower(s) == [i \in 1..Len(s) |-> LowerChar(s[i])]

\* regex \s and str.split() / str.strip() whitespace
IsSpace(ch) == ch \in {" ", "\t", "\n"}

\* regex \w
IsWordChar(ch) == ch \in Range(Uppers) \cup Range(Lowers) \cup Digits \cup {"_"}

\* str.strip()
Strip(s) ==
    LET idx == {i \in 1..Len(s) : ~IsSpace(s[i])} IN
    IF idx = {} THEN <<>>
    ELSE LET lo == CHOOSE i \in idx : \A j \in idx : i <= j
             hi == CHOOSE i \in idx : \A j \in idx : i >= j
         IN SubSeq(s, lo, hi)

\* w occurs in s at position i
OccursAt(s, i, w) ==
    /\ i >= 1
    /\ i + Len(w) - 1 <= Len(s)
    /\ \A k \in 1..Len(w) : s[i + k - 1] = w[k]

\* the backquote character (the lexer of the tools rejects it in a string)
BackQuote == "<backquote>"

\* re.search of a literal
Contains(s, w) == \E i \in 1..Len(s) : OccursAt(s, i, w)

\* s[i..j-1] is all whitespace (the regex \s* between two literals)
SpacesBetween(s, i, j) == \A k \in i..(j - 1) : IsSpace(s[k])

\* regex "x\s*y" with at least minGap whitespace characters, matched with x at i
GapAt(s, i, x, y, minGap) ==
    /\ OccursAt(s, i, x)
    /\ \E j \in (i + Len(x) + minGap)..(Len(s) + 1) :
          /\ SpacesBetween(s, i + Len(x), j)
          /\ OccursAt(s, j, y)

\* regex "x\s*y\b" searched anywhere: y is followed by a word boundary
SearchGapWord(s, x, y) ==
    \E i \in 1..Len(s) :
      /\ OccursAt(s, i, x)
      /\ \E j \in (i + Len(x))..(Len(s) + 1) :
            /\ SpacesBetween(s, i + Len(x), j)
            /\ OccursAt(s, j, y)
            /\ (j + Len(y) > Len(s) \/ ~IsWordChar(s[j + Len(y)]))

\* regex "x\s*y" searched anywhere
SearchGap(s, x, y) == \E i \in 1..Len(s) : GapAt(s, i, x, y, 0)

\* regex "x.y" searched anywhere: one arbitrary character between x and y
SearchAnyChar(s, x, y) ==
    \E i \in 1..Len(s) :
      /\ OccursAt(s, i, x)
      /\ i + Len(x) <= Len(s)
      /\ s[i + Len(x)] # "\n"
      /\ OccursAt(s, i + Len(x) + 1, y)

\* str.split()[0]: the first whitespace-separated word of a stripped string
FirstWord(s) ==
    LET sp == {i \in 1..Len(s) : IsSpace(s[i])} IN
    IF sp = {} THEN s
    ELSE SubSeq(s, 1, (CHOOSE i \in sp : \A j \in sp : i <= j) - 1)

\* str.split("/")[-1]
LastSlashPart(s) ==
    LET sl == {i \in 1..Len(s) : s[i] = "/"} IN
    IF sl = {} THEN s
    ELSE SubSeq(s, (CHOOSE i \in sl : \A j \in sl : i >= j) + 1, Len(s))

(***************************************************************************)
(* Sensitivity classification of the adapter (system_gateway_tool.py)      *)
(***************************************************************************)
AUTO_APPROVE_COMMANDS ==
    {
      <<"l", "s">>, <<"c", "a", "t">>, <<"h", "e", "a", "d">>,
      <<"t", "a", "i", "l">>, <<"g", "r", "e", "p">>, <<"f", "i", "n", "d">>,
      <<"w", "c">>, <<"p", "w", "d">>, <<"e", "c", "h", "o">>,
      <<"t", "r", "e", "e">>, <<"f", "i", "l", "e">>, <<"s", "t", "a", "t">>,
      <<"d", "u">>, <<"d", "f">>, <<"w", "h", "i", "c", "h">>,
      <<"w", "h", "o", "a", "m", "i">>, <<"d", "a", "t", "e">>, <<"e", "n", "v">>,
      <<"p", "r", "i", "n", "t", "e", "n", "v">>, <<"b", "a", "s", "e", "n", "a", "m", "e">>, <<"d", "i", "r", "n", "a", "m", "e">>,
      <<"r", "e", "a", "l", "p", "a", "t", "h">>, <<"r", "e", "a", "d", "l", "i", "n", "k">> }

PROMPT_COMMANDS ==
    {
      <<"m", "v">>, <<"c", "p">>, <<"t", "o", "u", "c", "h">>,
      <<"m", "k", "d", "i", "r">>, <<"n", "p", "m">>, <<"p", "i", "p">>,
      <<"y", "a", "r", "n">>, <<"p", "n", "p", "m">>, <<"p", "y", "t", "h", "o", "n">>,
      <<"n", "o", "d", "e">>, <<"b", "u", "n">>, <<"c", "a", "r", "g", "o">>,
      <<"g", "o">>, <<"m", "a", "k", "e">>, <<"g", "i", "t", " ", "s", "t", "a", "t", "u", "s">>,
      <<"g", "i", "t", " ", "l", "o", "g">>, <<"g", "i", "t", " ", "d", "i", "f", "f">>, <<"g", "i", "t", " ", "b", "r", "a", "n", "c", "h">> }

BLOCKED_COMMANDS ==
    {
      <<"s", "u", "d", "o">>, <<"s", "u">>, <<"m", "o", "u", "n", "t">>,
      <<"u", "m", "o", "u", "n", "t">>, <<"r", "e", "b", "o", "o", "t">>, <<"s", "h", "u", "t", "d", "o", "w", "n">>,
      <<"h", "a", "l", "t">>, <<"i", "n", "i", "t">>, <<"s", "y", "s", "t", "e", "m", "c", "t", "l">>,
      <<"s", "e", "r", "v", "i", "c", "e">>, <<"p", "a", "s", "s", "w", "d">>, <<"u", "s", "e", "r", "a", "d", "d">>,
      <<"u", "s", "e", "r", "d", "e", "l">> }

\* BLOCKED_PATTERNS, re.search on the lowercased, stripped command
MatchesBlockedPattern(s) ==
    \/ SearchGapWord(s, <<"|">>, <<"s", "h">>)
    \/ SearchGapWord(s, <<"|">>, <<"b", "a", "s", "h">>)
    \/ SearchGapWord(s, <<"|">>, <<"z", "s", "h">>)
    \/ Contains(s, <<BackQuote>>)
    \/ Contains(s, <<"$", "(">>)
    \/ SearchGap(s, <<">">>, <<"/", "d", "e", "v", "/">>)
    \/ SearchGap(s, <<">", ">">>, <<"/", "d", "e", "v", "/">>)
    \/ Contains(s, <<"/", "e", "t", "c", "/">>)
    \/ Contains(s, <<"/", "v", "a", "r", "/">>)
    \/ Contains(s, <<"/", "u", "s", "r", "/">>)
    \/ SearchAnyChar(s, <<"~", "/">>, <<"s", "s", "h">>)
    \/ SearchAnyChar(s, <<"~", "/">>, <<"g", "n", "u", "p", "g">>)

\* HIGH_RISK_PATTERNS, re.match (anchored at the start)
MatchesHighRisk(s) ==
    \/ (OccursAt(s, 1, <<"r", "m">>) /\ Len(s) >= 3 /\ IsSpace(s[3]))
    \/ GapAt(s, 1, <<"g", "i", "t">>, <<"p", "u", "s", "h">>, 1)
    \/ GapAt(s, 1, <<"g", "i", "t">>, <<"c", "h", "e", "c", "k", "o", "u", "t">>, 1)
    \/ GapAt(s, 1, <<"g", "i", "t">>, <<"r", "e", "s", "e", "t">>, 1)
    \/ GapAt(s, 1, <<"g", "i", "t">>, <<"r", "e", "b", "a", "s", "e">>, 1)
    \/ GapAt(s, 1, <<"g", "i", "t">>, <<"m", "e", "r", "g", "e">>, 1)
    \/ (OccursAt(s, 1, <<"c", "h", "m", "o", "d">>) /\ Len(s) >= 6 /\ IsSpace(s[6]))
    \/ (OccursAt(s, 1, <<"c", "h", "o", "w", "n">>) /\ Len(s) >= 6 /\ IsSpace(s[6]))

\* classify_command(command)
classify_command(command) ==
    LET command_lower == Strip(Lower(command))
        base_cmd      == LastSlashPart(FirstWord(command_lower))
    IN  IF MatchesBlockedPattern(command_lower) THEN "blocked"
        ELSE IF command_lower = <<>> THEN "blocked"
        ELSE IF base_cmd \in BLOCKED_COMMANDS THEN "blocked"
        ELSE IF MatchesHighRisk(command_lower) THEN "high"
        ELSE IF base_cmd \in AUTO_APPROVE_COMMANDS THEN "auto"
        ELSE IF base_cmd \in PROMPT_COMMANDS THEN "prompt"
        ELSE "prompt"

\* fnmatch.fnmatch(name, pattern): * matches any run of characters, / included
RECURSIVE GlobMatch(_, _)
GlobMatch(pattern, s) ==
    IF pattern = <<>> THEN s = <<>>
    ELSE IF Head(pattern) = "*"
         THEN GlobMatch(Tail(pattern), s) \/ (s # <<>> /\ GlobMatch(pattern, Tail(s)))
         ELSE /\ s # <<>>
              /\ (Head(pattern) = "?" \/ Head(pattern) = Head(s))
              /\ GlobMatch(Tail(pattern), Tail(s))

\* sensitive_patterns of classify_file_operation
SensitivePatterns ==
    {
      <<"*", ".", "e", "n", "v">>, <<"*", ".", "k", "e", "y">>,
      <<"*", ".", "p", "e", "m">>, <<"*", ".", "c", "r", "t">>,
      <<".", "g", "i", "t", "/", "c", "o", "n", "f", "i", "g">>, <<"*", "*", "/", "s", "e", "c", "r", "e", "t", "s", "/", "*", "*">>,
      <<"*", "*", "/", ".", "s", "s", "h", "/", "*", "*">>, <<"*", "*", "/", "c", "r", "e", "d", "e", "n", "t", "i", "a", "l", "s", "*">> }

\* classify_file_operation(operation, path)
classify_file_operation(operation, path) ==
    IF operation \in {"read_structure", "read_file"} THEN "auto"
    ELSE IF operation = "edit_file"
         THEN IF \E p \in SensitivePatterns : GlobMatch(p, path) THEN "high" ELSE "prompt"
         ELSE "auto"

(***************************************************************************)
(* GatewayAuditLogger: the journal is the sequence of entries handed to    *)
(* log(), in the order of the calls.                                       *)
(***************************************************************************)
AuditEntry(u, operation, target, result, details) ==
    [ user_id   |-> u,
      operation |-> operation,
      target    |-> target,
      result    |-> result,
      details   |-> details ]

OperationTypes ==
    { "read_structure", "read_file", "edit_file", "execute",
      "approval_requested", "approval_granted", "approval_denied", "approval_expired" }

\* variant of log_blocked that records the refusal as a failure without reason
log_blocked_as_failure(u, operation, target, reason) ==
    AuditEntry(u, IF operation \in OperationTypes THEN operation ELSE "execute",
               target, "failure", [reason |-> ""])

\* log_blocked(user_id, operation, target, reason)
log_blocked(u, operation, target, reason) ==
    AuditEntry(u, IF operation \in OperationTypes THEN operation ELSE "execute",
               target, "blocked", [reason |-> reason])

\* log_execute(user_id, command, success, exit_code, duration_ms)
log_execute(u, command, success, exit_code) ==
    AuditEntry(u, "execute", command, IF success THEN "success" ELSE "failure",
               [exit_code |-> exit_code])

\* log_edit_file(user_id, path, success, edits)
log_edit_file(u, path, success, edits) ==
    AuditEntry(u, "edit_file", path, IF success THEN "success" ELSE "failure",
               [edits_applied |-> edits])

\* log_read_file / log_read_structure
log_read(u, operation, path, success) ==
    AuditEntry(u, operation,
               IF operation = "read_structure" /\ path = <<>> THEN <<"/">> ELSE path,
               IF success THEN "success" ELSE "failure", [lines_read |-> 0])

(***************************************************************************)
(* SystemGatewayTool                                                       *)
(***************************************************************************)
\* commands given to the execute operation
Commands ==
    { <<>>,
      <<"s", "u", "d", "o", " ", "r", "m", " ", "-", "r", "f", " ", "/">>,
      <<"c", "a", "t", " ", "x", " ", "|", " ", "s", "h">>,
      <<" ", " ">>,
      <<"r", "m", " ", "-", "r", "f", " ", "t", "m", "p", "/">>,
      <<"l", "s", " ", "-", "l", "a">> }

\* paths given to the file operations
Paths ==
    { <<>>,
      <<"a", ".", "t", "x", "t">>,
      <<".", "e", "n", "v">> }

\* number of edits in the edits array of an edit_file operation
EditCounts == {0, 1}

\* what the gateway container answers to /execute: an error body
\* ({success: false, detail}), or a result with an exit code
ExecuteResponses ==
    {[detail |-> TRUE, exit_code |-> -1]} \cup
    {[detail |-> FALSE, exit_code |-> e] : e \in {0, 1, -1}}

IdleTask ==
    [ pc |-> "idle", user |-> "-", op |-> "-", target |-> <<>>, sens |-> "-",
      id |-> 0, ttl |-> 0, start |-> 0, max_wait |-> 0, seen |-> None,
      wait |-> "-", result |-> "-" ]

\* variant of the iteration without the timeout test
WaitStepNoTimeout(request, start, max_wait, t) ==
    IF request = None THEN "none"
    ELSE IF request.status # "pending" THEN request.status
    ELSE "sleep"

\* wait_for_decision: what one iteration of the loop does with the record it
\* read; "sleep" is asyncio.sleep(poll_interval) and another iteration.
\* "if max_wait:" is false for None and for 0.
WaitStep(request, start, max_wait, t) ==
    IF request = None THEN "none"
    ELSE IF request.status # "pending" THEN request.status
    ELSE IF max_wait # NoMaxWait /\ max_wait # 0 /\ t - start >= max_wait THEN "pending"
    ELSE "sleep"

\* variant of the approval test that takes every outcome but a rejection as
\* an approval
ApprovedUnlessRejected(waitResult) == waitResult # "rejected"

\* _request_approval: the boolean it returns for a result of wait_for_decision
Approved(waitResult) == waitResult = "approved"

EndpointOf(op) ==
    CASE op = "execute"        -> "/execute"
      [] op = "edit_file"      -> "/edit"
      [] op = "read_file"      -> "/read"
      [] op = "read_structure" -> "/structure"

Request(t, op, target) == [endpoint |-> EndpointOf(op), task |-> t, target |-> target]

\* queue_approval(user_id, operation, details, sensitivity, ttl_seconds): setex
\* of the record, sadd to the user's index, expire of the index; then
\* wait_for_decision(id, max_wait) takes its start time
QueueApproval(t, u, op, target, sens, ttl_seconds, max_wait) ==
    LET ttl == EffectiveTTL(ttl_seconds) IN
    /\ nextId \in Ids
    /\ kv' = StoreSetex(kv, nextId, ttl,
                        NewRequest(nextId, u, [kind |-> op, target |-> target], sens, ttl, now),
                        now)
    /\ uidx' = IndexAddExpire(uidx, u, nextId, ttl + IndexExtraTTL, now)
    /\ nextId' = nextId + 1
    /\ task' = [task EXCEPT ![t] =
                  [IdleTask EXCEPT !.pc = "waiting", !.user = u, !.op = op,
                                   !.target = target, !.sens = sens, !.id = nextId,
                                   !.ttl = ttl, !.start = now, !.max_wait = max_wait]]

\* the operation ends without a request to the gateway container
EndTask(t, u, op, target, sens, result) ==
    task' = [task EXCEPT ![t] =
               [IdleTask EXCEPT !.pc = "done", !.user = u, !.op = op,
                                !.target = target, !.sens = sens, !.result = result]]

\* _gateway_request(POST, endpoint, ...) is issued; the task awaits the answer
SendTask(t, u, op, target, sens) ==
    /\ task' = [task EXCEPT ![t] =
                  [IdleTask EXCEPT !.pc = "sent", !.user = u, !.op = op,
                                   !.target = target, !.sens = sens]]
    /\ sent' = Append(sent, Request(t, op, target))

\* a client of the service queues a request of its own and waits for the
\* decision: queue_approval(..., ttl_seconds) then wait_for_decision(id, max_wait)
StartWait(t, u, ttl_seconds, max_wait) ==
    /\ task[t].pc = "idle"
    /\ QueueApproval(t, u, "wait", <<>>, "prompt", ttl_seconds, max_wait)
    /\ UNCHANGED <<now, cfg, callVars, audit, sent, gwVars>>

\* _execute up to its first suspension
StartExecute(t, u, command) ==
    /\ task[t].pc = "idle"
    /\ IF command = <<>>
       THEN /\ EndTask(t, u, "execute", command, "-", "input_error")
            /\ UNCHANGED <<kv, uidx, nextId, audit, sent>>
       ELSE LET sensitivity == classify_command(command) IN
            IF sensitivity = "blocked"
            THEN /\ audit' = Append(audit, log_blocked(u, "execute", command, "blocked command"))
                 /\ EndTask(t, u, "execute", command, sensitivity, "blocked")
                 /\ UNCHANGED <<kv, uidx, nextId, sent>>
            ELSE IF sensitivity \in {"prompt", "high"}
            THEN /\ QueueApproval(t, u, "execute", command, sensitivity, 0, cfg.hitl_timeout)
                 /\ UNCHANGED <<audit, sent>>
            ELSE /\ SendTask(t, u, "execute", command, sensitivity)
                 /\ UNCHANGED <<kv, uidx, nextId, audit>>
    /\ UNCHANGED <<now, cfg, callVars, gwVars>>

\* _edit_file up to its first suspension
StartEdit(t, u, path, edits) ==
    /\ task[t].pc = "idle"
    /\ IF path = <<>> \/ edits = 0
       THEN /\ EndTask(t, u, "edit_file", path, "-", "input_error")
            /\ UNCHANGED <<kv, uidx, nextId, audit, sent>>
       ELSE LET sensitivity == classify_file_operation("edit_file", path) IN
            IF sensitivity = "blocked"
            THEN /\ audit' = Append(audit, log_blocked(u, "edit_file", path, "blocked pattern"))
                 /\ EndTask(t, u, "edit_file", path, sensitivity, "blocked")
                 /\ UNCHANGED <<kv, uidx, nextId, sent>>
            ELSE IF sensitivity \in {"prompt", "high"}
            THEN /\ QueueApproval(t, u, "edit_file", path, sensitivity, 0, cfg.hitl_timeout)
                 /\ UNCHANGED <<audit, sent>>
            ELSE /\ SendTask(t, u, "edit_file", path, sensitivity)
                 /\ UNCHANGED <<kv, uidx, nextId, audit>>
    /\ UNCHANGED <<now, cfg, callVars, gwVars>>

\* _read_file / _read_structure up to the request to the gateway container
StartRead(t, u, op, path) ==
    /\ task[t].pc = "idle"
    /\ IF op = "read_file" /\ path = <<>>
       THEN /\ EndTask(t, u, op, path, "-", "input_error")
            /\ UNCHANGED sent
       ELSE SendTask(t, u, op, path, "auto")
    /\ UNCHANGED <<now, cfg, storeVars, callVars, audit, gwVars>>

\* wait_for_decision: request = await self.get_status(approval_id)
PollRead(t) ==
    /\ task[t].pc = "waiting"
    /\ task' = [task EXCEPT ![t].pc = "read", ![t].seen = GetStatus(task[t].id)]
    /\ UNCHANGED <<now, cfg, storeVars, callVars, audit, sent, gwVars>>

\* wait_for_decision: the rest of the iteration, on the record that was read
\* and the clock as it is now; when the wait returns, _request_approval and
\* the operation go on, and a client of the service just ends
PollCheck(t) ==
    /\ task[t].pc = "read"
    /\ LET r == WaitStep(task[t].seen, task[t].start, task[t].max_wait, now) IN
       IF r = "sleep"
       THEN /\ task' = [task EXCEPT ![t].pc = "waiting", ![t].seen = None]
            /\ UNCHANGED sent
       ELSE IF task[t].op = "wait"
       THEN /\ task' = [task EXCEPT ![t].pc = "done", ![t].seen = None, ![t].wait = r,
                                    ![t].result = "returned"]
            /\ UNCHANGED sent
       ELSE IF Approved(r)
       THEN /\ task' = [task EXCEPT ![t].pc = "sent", ![t].seen = None, ![t].wait = r]
            /\ sent' = Append(sent, Request(t, task[t].op, task[t].target))
       ELSE /\ task' = [task EXCEPT ![t].pc = "done", ![t].seen = None, ![t].wait = r,
                                    ![t].result = "cancelled"]
            /\ UNCHANGED sent
    /\ UNCHANGED <<now, cfg, storeVars, callVars, audit, gwVars>>

\* the answer of the gateway container arrives: audit and return
ExecuteResponse(t, resp) ==
    /\ task[t].pc = "sent"
    /\ task[t].op = "execute"
    /\ IF resp.detail
       THEN /\ audit' = Append(audit, log_execute(task[t].user, task[t].target, FALSE, -1))
            /\ task' = [task EXCEPT ![t].pc = "done", ![t].result = "error"]
       ELSE /\ audit' = Append(audit, log_execute(task[t].user, task[t].target,
                                                resp.exit_code = 0, resp.exit_code))
            /\ task' = [task EXCEPT ![t].pc = "done",
                                    ![t].result = IF resp.exit_code = 0 THEN "success"
                                                  ELSE "failure"]
    /\ UNCHANGED <<now, cfg, storeVars, callVars, sent, gwVars>>

FileResponse(t, success) ==
    /\ task[t].pc = "sent"
    /\ task[t].op # "execute"
    /\ audit' = Append(audit,
                  IF task[t].op = "edit_file"
                  THEN log_edit_file(task[t].user, task[t].target, success,
                                     IF success THEN 1 ELSE 0)
                  ELSE log_read(task[t].user, task[t].op, task[t].target, success))
    /\ task' = [task EXCEPT ![t].pc = "done",
                            ![t].result = IF success THEN "success" ELSE "error"]
    /\ UNCHANGED <<now, cfg, storeVars, callVars, sent, gwVars>>

(***************************************************************************)
(* Specifications                                                          *)
(***************************************************************************)
NoPathCall == [input |-> <<>>, result |-> [ok |-> FALSE, error |-> "-"]]

\* the gateway container has no request
NoGatewayCall == [op |-> "-"]

\* the adapter, the approval service and their clients before any call
AdapterIdle ==
    /\ now = 0
    /\ cfg \in Configs
    /\ kv = [id \in Ids |-> None]
    /\ uidx = [u \in Users |-> EmptyIndex]
    /\ nextId = 1
    /\ task = [t \in Tasks |-> IdleTask]
    /\ caller = [c \in Callers |-> IdleCaller]
    /\ last = NoOutcome
    /\ wins = [id \in Ids |-> 0]
    /\ decidedAt = [id \in Ids |-> -1]
    /\ audit = <<>>
    /\ sent = <<>>

Init ==
    /\ AdapterIdle
    /\ pv = NoPathCall
    /\ gw = NoGatewayCall

TaskStep ==
    \/ \E t \in Tasks, command \in Commands : StartExecute(t, UserOf(t), command)
    \/ \E t \in Tasks, path \in Paths, n \in EditCounts : StartEdit(t, UserOf(t), path, n)
    \/ \E t \in Tasks, op \in {"read_file", "read_structure"}, path \in Paths :
          StartRead(t, UserOf(t), op, path)
    \/ \E t \in Tasks, ttl \in TTLInputs, w \in MaxWaitInputs : StartWait(t, UserOf(t), ttl, w)
    \/ \E t \in Tasks : PollRead(t)
    \/ \E t \in Tasks : PollCheck(t)
    \/ \E t \in Tasks, resp \in ExecuteResponses : ExecuteResponse(t, resp)
    \/ \E t \in Tasks, ok \in BOOLEAN : FileResponse(t, ok)

Next ==
    \/ Tick
    \/ TaskStep
    \/ \E c \in Callers, id \in Ids, u \in Users, act \in {"approve", "reject"} :
          PatchCheck(c, id, u, act)
    \/ \E c \in Callers, id \in Ids, act \in {"approve", "reject"} : DirectCall(c, id, act)
    \/ \E c \in Callers : CallGet(c)
    \/ \E c \in Callers : CallSet(c)

Spec == Init /\ [][Next]_vars

\* The same program when the calls of approve / reject / PATCH follow one
\* another: a call starts only when no other call is in progress.
NoCallInProgress == \A c \in Callers : caller[c].pc = "idle"

SeqPatchCheck(c, id, u, act) == NoCallInProgress /\ PatchCheck(c, id, u, act)

SeqDirectCall(c, id, act) == NoCallInProgress /\ DirectCall(c, id, act)

NextSeq ==
    \/ Tick
    \/ TaskStep
    \/ \E c \in Callers, id \in Ids, u \in Users, act \in {"approve", "reject"} :
          SeqPatchCheck(c, id, u, act)
    \/ \E c \in Callers, id \in Ids, act \in {"approve", "reject"} : SeqDirectCall(c, id, act)
    \/ \E c \in Callers : CallGet(c)
    \/ \E c \in Callers : CallSet(c)

SpecSeq == Init /\ [][NextSeq]_vars

(***************************************************************************)
(* Properties of the approval queue                                        *)
(***************************************************************************)
Record(id) == kv[id].rec

Decided(id) == kv[id] # None /\ Record(id).status \in {"approved", "rejected"}

\* the call of c ends in this step and returns True / False
ReturnsTrue(c)  == caller[c].pc = "write" /\ caller'[c].pc = "idle"
ReturnsFalse(c) == caller[c].pc = "call" /\ caller'[c].pc = "idle"

\* C1: when approve(id) and reject(id) calls follow one another, a call
\* returns True exactly when it reads the record as pending, no call on that
\* id returned True before it, and it stores its own status; a call that
\* returns False leaves the store as it is; a stored approved / rejected
\* status never changes into the other one.
C1_FirstCallDecides ==
    [][ /\ \A c \in Callers :
             /\ (caller[c].pc = "call" /\ caller'[c] # caller[c]) =>
                   IF GetStatus(caller[c].id) # None
                      /\ GetStatus(caller[c].id).status = "pending"
                   THEN caller'[c].pc = "write"
                   ELSE /\ ReturnsFalse(c)
                        /\ last' = [id |-> caller[c].id, out |-> "false"]
                        /\ kv' = kv
             /\ ReturnsTrue(c) =>
                   /\ wins[caller[c].id] = 0
                   /\ wins'[caller[c].id] = 1
                   /\ last' = [id |-> caller[c].id, out |-> "true"]
                   /\ kv'[caller[c].id].rec.status = StatusOf(caller[c].act)
        /\ \A id \in Ids :
             (Decided(id) /\ kv'[id] # None) =>
                 kv'[id].rec.status = Record(id).status
      ]_vars

\* C1 witness: a first call returned True, the record is still stored with
\* its terminal status, and a later call on the same id returned False.
C1_Witness ==
    \E id \in Ids :
        /\ wins[id] = 1
        /\ Decided(id)
        /\ last = [id |-> id, out |-> "false"]

\* C2: of the approve / reject calls that run concurrently on one request at
\* most one returns True.
C2_AtMostOneReturnsTrue == \A id \in Ids : wins[id] <= 1

(***************************************************************************)
(* Properties of the gateway tool adapter                                  *)
(***************************************************************************)
Started(t) == task[t].pc # "idle"

\* the sensitivity the adapter computes for the operation of task t
Sensitivity(t) ==
    IF task[t].op = "execute" THEN classify_command(task[t].target)
    ELSE classify_file_operation(task[t].op, task[t].target)

\* the operation of task t passed the adapter's input validation
PastValidation(t) ==
    Started(t) /\ task[t].op \in OperationTypes /\ task[t].result # "input_error"

\* requests of task t sent to the gateway container
SentBy(t) == {i \in 1..Len(sent) : sent[i].task = t}

\* the target an audit entry of the operation carries
AuditTarget(op, target) ==
    IF op = "read_structure" /\ target = <<>> THEN <<"/">> ELSE target

\* audit entries of the operation of task t
AuditOf(t) ==
    {i \in 1..Len(audit) :
        /\ audit[i].user_id = task[t].user
        /\ audit[i].target = AuditTarget(task[t].op, task[t].target)}

\* approval requests queued so far
Queued == nextId - 1

C3_WitnessRejected ==
    \E t \in Tasks : task[t].wait = "rejected" /\ task[t].result = "cancelled"

C3_WitnessExpired ==
    \E t \in Tasks : task[t].wait = "none" /\ task[t].result = "cancelled"

C3_WitnessTimeout ==
    \E t \in Tasks : task[t].wait = "pending" /\ task[t].result = "cancelled"

DocumentedWaitStep(request, start, max_wait, t) ==
    IF request = None THEN "none"
    ELSE IF request.status # "pending" THEN request.status
    ELSE IF max_wait # NoMaxWait /\ t - start >= max_wait THEN "pending"
    ELSE "sleep"

\* C5: every iteration of wait_for_decision returns the record as soon as it
\* reads a status other than pending, returns the still-pending record once
\* max_wait has elapsed, returns None as soon as the record is absent, and
\* otherwise goes on polling (it returns no pending record before max_wait
\* has elapsed).
C5_WaitForDecision ==
    [][ \A t \in Tasks :
          (task[t].pc = "read" /\ task'[t] # task[t]) =>
              LET r == DocumentedWaitStep(task[t].seen, task[t].start,
                                          task[t].max_wait, now)
              IN  IF r = "sleep" THEN task'[t].pc = "waiting"
                  ELSE task'[t].pc \notin {"waiting", "read"} /\ task'[t].wait = r
      ]_vars

\* the instant at which the TTL of the request queued by task t elapses
ExpiryOf(t) == task[t].start + task[t].ttl

\* no approve / reject call on the request of task t returned True within its TTL
UndecidedWithinTTL(t) ==
    decidedAt[task[t].id] = -1 \/ decidedAt[task[t].id] >= ExpiryOf(t)

\* C6: a request on which no approve or reject succeeded within its TTL is
\* absent from the moment the TTL has elapsed: get_status returns None,
\* wait_for_decision returns None, approve and reject find nothing to decide,
\* GET /approvals/{id} answers 404.
C6_UndecidedRequestExpires ==
    \A t \in Tasks :
        (task[t].id # 0 /\ now >= ExpiryOf(t) /\ UndecidedWithinTTL(t)) =>
            /\ GetStatus(task[t].id) = None
            /\ WaitStep(GetStatus(task[t].id), task[t].start, task[t].max_wait, now) = "none"
            /\ NotDecidable(GetStatus(task[t].id))
            /\ GetApprovalStatus(task[t].id, task[t].user) = "404"

\* C7: after approve or reject returned True the record stays stored for the
\* 60 s that follow the decision, and once wait_for_decision has returned a
\* decided record every get_status within those 60 s returns a record with
\* the same status.
C7_DecisionStaysObservable ==
    \A t \in Tasks :
        (/\ task[t].id # 0
         /\ decidedAt[task[t].id] # -1
         /\ now < decidedAt[task[t].id] + ResidualTTL) =>
            /\ GetStatus(task[t].id) # None
            /\ task[t].wait \in {"approved", "rejected"} =>
                  GetStatus(task[t].id).status = task[t].wait

\* C8: every operation past input validation leaves an audit entry with its
\* user_id, operation and target; an operation cancelled because its approval
\* was rejected, expired or still pending at the wait timeout leaves an entry
\* with result blocked and a reason (timeout or rejected).
C8_EveryOperationAudited ==
    \A t \in Tasks :
        (task[t].pc = "done" /\ PastValidation(t)) =>
            /\ \E i \in AuditOf(t) : audit[i].operation = task[t].op
            /\ task[t].result = "cancelled" =>
                  \E i \in AuditOf(t) :
                      /\ audit[i].result = "blocked"
                      /\ audit[i].details.reason \in {"timeout", "rejected"}

\* C9: when a HIGH command was approved and ran with exit code 0, the journal
\* holds an approval_granted entry followed by the execute entry with result
\* success.
C9_ApprovalGrantedThenExecute ==
    \A t \in Tasks :
        (/\ task[t].op = "execute"
         /\ Sensitivity(t) = "high"
         /\ task[t].wait = "approved"
         /\ task[t].pc = "done"
         /\ task[t].result = "success") =>
            \E i, j \in 1..Len(audit) :
                /\ i < j
                /\ audit[i].operation = "approval_granted"
                /\ audit[i].user_id = task[t].user
                /\ audit[j] = log_execute(task[t].user, task[t].target, TRUE, 0)

(***************************************************************************)
(* PathValidator (deploy/system-gateway/services/path_validator.py)        *)
(*                                                                         *)
(* A path string is a sequence of characters; a parsed path is a sequence  *)
(* of names, the root being the empty sequence.                            *)
(***************************************************************************)
\* settings.blocked_patterns, the default of BLOCKED_PATTERNS
DefaultBlockedPatterns ==
    { <<"*", ".", "e", "n", "v">>, <<"*", ".", "k", "e", "y">>, <<"*", ".", "p", "e", "m">>,
      <<".", "g", "i", "t", "/", "c", "o", "n", "f", "i", "g">>,
      <<"*", "*", "/", "s", "e", "c", "r", "e", "t", "s", "/", "*", "*">> }

\* Path(workspace_root).resolve()
WorkspaceRoot == << <<"w", "o", "r", "k", "s", "p", "a", "c", "e">> >>

\* the symbolic links of the filesystem: path of the link -> its target
Symlinks ==
    ( << <<"w", "o", "r", "k", "s", "p", "a", "c", "e">>, <<"o", "u", "t">> >> :> [abs |-> TRUE,  parts |-> << <<"e", "t", "c">> >>] ) @@
    ( << <<"w", "o", "r", "k", "s", "p", "a", "c", "e">>, <<"i", "n">> >>  :> [abs |-> FALSE, parts |-> << <<"s", "u", "b">> >>] ) @@
    ( << <<"w", "o", "r", "k", "s", "p", "a", "c", "e">>, <<"s", "u", "b">>, <<"u", "p">> >> :> [abs |-> FALSE, parts |-> << <<".", ".">>, <<".", ".">> >>] ) @@
    ( << <<"w", "o", "r", "k", "s", "p", "a", "c", "e">>, <<"l", "n", "k">> >> :> [abs |-> FALSE, parts |-> << <<"s", "u", "b">>, <<"k", ".", "p", "e", "m">> >>] )

\* str.split("/"): the pieces of s between slashes, empty pieces included
RECURSIVE SplitSlash(_)
SplitSlash(s) ==
    LET sl == {i \in 1..Len(s) : s[i] = "/"} IN
    IF sl = {} THEN <<s>>
    ELSE LET i == CHOOSE k \in sl : \A j \in sl : k <= j
         IN <<SubSeq(s, 1, i - 1)>> \o SplitSlash(SubSeq(s, i + 1, Len(s)))

\* the parts pathlib keeps of a path string: empty pieces and "." are dropped
PathParts(s) ==
    LET keep(x) == x # <<>> /\ x # <<".">> IN SelectSeq(SplitSlash(s), keep)

\* Path(path).is_absolute()
IsAbsolute(s) == s # <<>> /\ s[1] = "/"

\* str.lstrip("/")
RECURSIVE LStripSlash(_)
LStripSlash(s) == IF s # <<>> /\ Head(s) = "/" THEN LStripSlash(Tail(s)) ELSE s

\* "/".join(parts)
RECURSIVE JoinSlash(_)
JoinSlash(parts) ==
    IF parts = <<>> THEN <<>>
    ELSE IF Len(parts) = 1 THEN parts[1]
    ELSE parts[1] \o <<"/">> \o JoinSlash(Tail(parts))

DotDot == <<".", ".">>

\* Path.resolve(): walk the parts from the directory cur; ".." drops the last
\* name (the root is its own parent), a symbolic link is replaced by its
\* target, any other name (existing or not) is appended
RECURSIVE RealPath(_, _)
RealPath(cur, rest) ==
    IF rest = <<>> THEN cur
    ELSE LET c == Head(rest) IN
         IF c = DotDot
         THEN RealPath(IF cur = <<>> THEN cur ELSE SubSeq(cur, 1, Len(cur) - 1), Tail(rest))
         ELSE IF Append(cur, c) \in DOMAIN Symlinks
         THEN LET link == Symlinks[Append(cur, c)] IN
              RealPath(IF link.abs THEN <<>> ELSE cur, link.parts \o Tail(rest))
         ELSE RealPath(Append(cur, c), Tail(rest))

\* resolved.relative_to(root) succeeds
IsUnder(resolved, root) ==
    /\ Len(resolved) >= Len(root)
    /\ SubSeq(resolved, 1, Len(root)) = root

\* str(resolved.relative_to(root))
RelativeTo(resolved, root) ==
    IF resolved = root THEN <<".">>
    ELSE JoinSlash(SubSeq(resolved, Len(root) + 1, Len(resolved)))

\* Path.name
NameOf(resolved) == IF resolved = <<>> THEN <<>> ELSE resolved[Len(resolved)]

PathError(kind) == [ok |-> FALSE, error |-> kind]

\* the path validate constructs before resolving it
TargetOf(path) ==
    IF IsAbsolute(path) THEN PathParts(path)
    ELSE WorkspaceRoot \o PathParts(LStripSlash(path))

\* variant of validate that tests containment on the path as written, before
\* symbolic links and ".." are resolved
validate_unresolved(path) ==
    IF path = <<>> \/ path \in { <<".">>, <<".", "/">>, <<"/">> }
    THEN [ok |-> TRUE, path |-> WorkspaceRoot]
    ELSE LET resolved == RealPath(<<>>, TargetOf(path)) IN
         IF ~IsUnder(TargetOf(path), WorkspaceRoot) THEN PathError("escapes")
         ELSE LET relative_path == RelativeTo(resolved, WorkspaceRoot) IN
              IF \E pattern \in DefaultBlockedPatterns :
                    \/ GlobMatch(pattern, relative_path)
                    \/ GlobMatch(pattern, NameOf(resolved))
              THEN PathError("blocked")
              ELSE [ok |-> TRUE, path |-> resolved]

\* PathValidator.validate(path)
validate(path) ==
    IF path = <<>> \/ path \in { <<".">>, <<".", "/">>, <<"/">> }
    THEN [ok |-> TRUE, path |-> WorkspaceRoot]
    ELSE LET resolved == RealPath(<<>>, TargetOf(path)) IN
         IF ~IsUnder(resolved, WorkspaceRoot) THEN PathError("escapes")
         ELSE LET relative_path == RelativeTo(resolved, WorkspaceRoot) IN
              IF \E pattern \in DefaultBlockedPatterns :
                    \/ GlobMatch(pattern, relative_path)
                    \/ GlobMatch(pattern, NameOf(resolved))
              THEN PathError("blocked")
              ELSE [ok |-> TRUE, path |-> resolved]

\* names the callers' paths are made of
PathNames ==
    { DotDot, <<"s", "u", "b">>, <<"o", "u", "t">>, <<"i", "n">>, <<"u", "p">>, <<"e", "t", "c">>, <<"p", "a", "s", "s", "w", "d">>, <<"w", "o", "r", "k", "s", "p", "a", "c", "e">>, <<"k", ".", "p", "e", "m">>,
      <<"i", "d", "_", "r", "s", "a">>, <<"s", "e", "c", "r", "e", "t", "s">>, <<".", "g", "i", "t">>, <<"c", "o", "n", "f", "i", "g">>, <<".", "e", "n", "v">>, <<"l", "n", "k">> }

MaxPathLen == 3   \* names in a caller's path

\* the path strings given to validate: "", ".", "./", "/", and relative and
\* absolute paths of up to MaxPathLen names
PathInputs ==
    { <<>>, <<".">>, <<".", "/">>, <<"/">> } \cup
    UNION { { JoinSlash(ps) : ps \in [1..n -> PathNames] } \cup
            { <<"/">> \o JoinSlash(ps) : ps \in [1..n -> PathNames] }
            : n \in 1..MaxPathLen }

\* a caller holds a path string it has not yet handed to validate
InitPath ==
    /\ AdapterIdle
    /\ gw = NoGatewayCall
    /\ \E path \in PathInputs : pv = [input |-> path, result |-> NoPathCall.result]

\* the caller hands its path to validate
Validate ==
    /\ pv.result = NoPathCall.result
    /\ pv' = [pv EXCEPT !.result = validate(pv.input)]
    /\ UNCHANGED <<now, cfg, storeVars, callVars, toolVars, gw>>

NextPath == Validate

SpecPath == InitPath /\ [][NextPath]_vars

\* the path a caller's string denotes once every symbolic link and every ".."
\* is resolved: relative strings are taken from the workspace root
Canonical(path) ==
    RealPath(<<>>, IF IsAbsolute(path) THEN PathParts(path)
                   ELSE WorkspaceRoot \o PathParts(path))

\* C10 as stated: validate returns a path only if the canonical form of its
\* input is the workspace root or a descendant of it.
C10_AcceptedOnlyInsideWorkspace ==
    pv.result # NoPathCall.result =>
        (pv.result.ok => IsUnder(Canonical(pv.input), WorkspaceRoot))

\* C10 amended: the path validate returns is the workspace root or a
\* descendant of it, and it is the canonical form of the input for every input
\* but "/", which is answered with the workspace root; every input whose
\* canonical form lies outside the workspace, "/" excepted, is rejected.
C10_ReturnedPathInsideWorkspace ==
    pv.result # NoPathCall.result =>
        /\ pv.result.ok =>
              /\ IsUnder(pv.result.path, WorkspaceRoot)
              /\ pv.input # <<"/">> => pv.result.path = Canonical(pv.input)
        /\ (pv.input # <<"/">> /\ ~IsUnder(Canonical(pv.input), WorkspaceRoot)) =>
              ~pv.result.ok

\* C10 witness: a path through a symbolic link that leaves the workspace was
\* rejected as escaping.
C10_Witness ==
    /\ pv.input = <<"o", "u", "t", "/", "p", "a", "s", "s", "w", "d">>
    /\ pv.result = PathError("escapes")

(***************************************************************************)
(* Properties of the default blocklist                                     *)
(***************************************************************************)
\* s ends with suffix
HasSuffix(s, suffix) ==
    /\ Len(s) >= Len(suffix)
    /\ SubSeq(s, Len(s) - Len(suffix) + 1, Len(s)) = suffix

\* a file name the default configuration is documented to block
SecretName(name) ==
    \/ name = <<"i", "d", "_", "r", "s", "a">>
    \/ HasSuffix(name, <<".", "e", "n", "v">>)
    \/ HasSuffix(name, <<".", "k", "e", "y">>)
    \/ HasSuffix(name, <<".", "p", "e", "m">>)

\* a resolved path inside the workspace that the default configuration is
\* documented to block: a secret file name in any directory, .git/config,
\* or anything inside a directory named secrets at any depth
DocumentedBlocked(resolved) ==
    LET rel == SubSeq(resolved, Len(WorkspaceRoot) + 1, Len(resolved)) IN
    /\ IsUnder(resolved, WorkspaceRoot)
    /\ rel # <<>>
    /\ \/ SecretName(rel[Len(rel)])
       \/ rel = << <<".", "g", "i", "t">>, <<"c", "o", "n", "f", "i", "g">> >>
       \/ \E i \in 1..(Len(rel) - 1) : rel[i] = <<"s", "e", "c", "r", "e", "t", "s">>

\* C11: under the default configuration validate rejects every path whose
\* resolved form has the basename id_rsa or a basename matching *.env, *.key
\* or *.pem, is .git/config, or lies inside a directory named secrets at any
\* depth (directly under the workspace root included).
C11_DefaultBlocklist ==
    (pv.result # NoPathCall.result /\ DocumentedBlocked(Canonical(pv.input))) =>
        ~pv.result.ok

\* what of C11 the code does: secret file names other than id_rsa, .git/config
\* and secrets directories below the top level are rejected, through symbolic
\* links as well
C11_BlockedByDefaultPatterns ==
    (pv.result # NoPathCall.result /\ IsUnder(Canonical(pv.input), WorkspaceRoot)) =>
        LET resolved == Canonical(pv.input)
            rel == SubSeq(resolved, Len(WorkspaceRoot) + 1, Len(resolved))
        IN  (/\ rel # <<>>
             /\ \/ SecretName(rel[Len(rel)]) /\ rel[Len(rel)] # <<"i", "d", "_", "r", "s", "a">>
                \/ rel = << <<".", "g", "i", "t">>, <<"c", "o", "n", "f", "i", "g">> >>
                \/ \E i \in 2..(Len(rel) - 1) : rel[i] = <<"s", "e", "c", "r", "e", "t", "s">>)
            => pv.result = PathError("blocked")

(***************************************************************************)
(* Gateway container: file endpoints (deploy/system-gateway/routers/       *)
(* files.py).  The content of a file is a sequence of characters; a line   *)
(* is a sequence of characters that ends with NL, except possibly the      *)
(* last line of a file.                                                    *)
(***************************************************************************)
NL == "\n"

MaxFileLen == 3   \* characters in the file served
MaxLine    == 3   \* largest line number in a request
MaxEdits   == 2   \* edits in one request

Min(a, b) == IF a <= b THEN a ELSE b
Max(a, b) == IF a >= b THEN a ELSE b

\* texts of up to n characters
TextsUpTo(n) == UNION { [1..k -> {"a", "b", NL}] : k \in 0..n }

\* f.readlines() and str.splitlines(keepends=True): cut after every NL
RECURSIVE ReadLines(_)
ReadLines(content) ==
    LET ends == {i \in 1..Len(content) : content[i] = NL} IN
    IF content = <<>> THEN <<>>
    ELSE IF ends = {} THEN <<content>>
    ELSE LET i == CHOOSE k \in ends : \A j \in ends : k <= j
         IN <<SubSeq(content, 1, i)>> \o ReadLines(SubSeq(content, i + 1, Len(content)))

\* f.writelines(lines) / "".join(lines)
RECURSIVE JoinLines(_)
JoinLines(lines) == IF lines = <<>> THEN <<>> ELSE Head(lines) \o JoinLines(Tail(lines))

\* (edit.content or "").splitlines(keepends=True), the last line completed
\* with NL
ContentLines(content) ==
    LET ls == ReadLines(content) IN
    IF ls # <<>> /\ ls[Len(ls)][Len(ls[Len(ls)])] # NL
    THEN [ls EXCEPT ![Len(ls)] = Append(@, NL)]
    ELSE ls

\* lines[idx:end_idx] = repl for 0 <= idx (Python slice bounds are clamped to
\* the list, and an empty or reversed slice sits at its lower bound)
SliceAssign(lines, idx, end_idx, repl) ==
    LET n  == Len(lines)
        lo == Min(idx, n)
        hi == Max(lo, Min(end_idx, n))
    IN  SubSeq(lines, 1, lo) \o repl \o SubSeq(lines, hi + 1, n)

\* EditOperation: line_end = 0 and content = <<>> stand for None
EditOp(action, line_start, line_end, content) ==
    [action |-> action, line_start |-> line_start, line_end |-> line_end,
     content |-> content]

\* one iteration of "for edit in sorted_edits"
ApplyEdit(new_lines, edit) ==
    LET idx     == edit.line_start - 1
        end_idx == IF edit.line_end # 0 THEN edit.line_end ELSE edit.line_start
    IN  CASE edit.action = "delete"  -> SliceAssign(new_lines, idx, end_idx, <<>>)
          [] edit.action = "replace" ->
                SliceAssign(new_lines, idx, end_idx, ContentLines(edit.content))
          [] edit.action = "insert"  ->
                SliceAssign(new_lines, idx, idx, ContentLines(edit.content))

\* sorted(edits, key=line_start, reverse=True): the sort is stable, edits
\* with the same line_start keep the order of the request
RECURSIVE SortedEdits(_)
SortedEdits(edits) ==
    IF edits = <<>> THEN <<>>
    ELSE LET e      == edits[Len(edits)]
             sorted == SortedEdits(SubSeq(edits, 1, Len(edits) - 1))
             k      == Cardinality({i \in 1..Len(sorted) :
                                       sorted[i].line_start >= e.line_start})
         IN  SubSeq(sorted, 1, k) \o <<e>> \o SubSeq(sorted, k + 1, Len(sorted))

RECURSIVE ApplyAll(_, _)
ApplyAll(new_lines, sorted_edits) ==
    IF sorted_edits = <<>> THEN new_lines
    ELSE ApplyAll(ApplyEdit(new_lines, Head(sorted_edits)), Tail(sorted_edits))

\* new_lines of edit_file for the lines read from the file
ApplyEdits(original_lines, edits) == ApplyAll(original_lines, SortedEdits(edits))

\* the directories of the filesystem, the read-only ones among them, and the
\* one regular file of the workspace
Dirs ==
    { <<>>, << <<"e", "t", "c">> >>, WorkspaceRoot, << <<"w", "o", "r", "k", "s", "p", "a", "c", "e">>, <<"s", "u", "b">> >>,
      << <<"w", "o", "r", "k", "s", "p", "a", "c", "e">>, <<"r", "o">> >> }

ReadOnlyDirs == { << <<"w", "o", "r", "k", "s", "p", "a", "c", "e">>, <<"r", "o">> >> }

ServedFile == << <<"w", "o", "r", "k", "s", "p", "a", "c", "e">>, <<"a", ".", "t", "x", "t">> >>

\* PathValidator.validate_for_write(path)
validate_for_write(path) ==
    LET v == validate(path) IN
    IF ~v.ok THEN v
    ELSE LET parent == SubSeq(v.path, 1, Len(v.path) - 1) IN
         IF parent \notin Dirs THEN PathError("no parent")
         ELSE IF parent \in ReadOnlyDirs THEN PathError("not writable")
         ELSE v

\* paths of the edit requests: the file, a directory, a missing file, a
\* blocked name, a path that escapes, a missing parent, a read-only parent
EditPaths ==
    { <<"a", ".", "t", "x", "t">>, <<"s", "u", "b">>, <<"n", "e", "w", ".", "t", "x", "t">>, <<"k", ".", "p", "e", "m">>, <<".", ".", "/", "x">>, <<"n", "o", "d", "i", "r", "/", "f">>, <<"r", "o", "/", "f">> }

\* what the path of a request denotes before the request
TargetStates(path) ==
    LET v == validate(path) IN
    IF v.ok /\ v.path = ServedFile
    THEN { [kind |-> "file", content |-> c] : c \in TextsUpTo(MaxFileLen) }
    ELSE IF v.ok /\ v.path \in Dirs THEN { [kind |-> "dir", content |-> <<>>] }
    ELSE { [kind |-> "missing", content |-> <<>>] }

\* contents of the insert and replace operations
EditContents == { <<"x">>, <<"y", NL>> }

EditOps ==
    { EditOp("insert", k, 0, c) : k \in 1..MaxLine, c \in EditContents } \cup
    { EditOp("delete", k, e, <<>>) : k \in 1..MaxLine, e \in {0, MaxLine} } \cup
    { EditOp("replace", k, e, <<"x">>) : k \in 1..MaxLine, e \in {0, MaxLine} }

EditBatches == UNION { [1..n -> EditOps] : n \in 1..MaxEdits }

\* POST /edit arrives
EditRequest(path, edits, create_if_missing, file) ==
    [ op |-> "edit", path |-> path, edits |-> edits,
      create_if_missing |-> create_if_missing, file |-> file, before |-> file,
      pc |-> "request", status |-> 0, new_lines |-> <<>> ]

InitEdit ==
    /\ AdapterIdle
    /\ pv = NoPathCall
    /\ \E path \in EditPaths, edits \in EditBatches, create \in BOOLEAN :
          \E file \in TargetStates(path) :
              gw = EditRequest(path, edits, create, file)

\* the request ends with an HTTP status
EditDone(status) == gw' = [gw EXCEPT !.pc = "done", !.status = status]

\* edit_file up to the diff: validate the path, read the file (readable tells
\* whether open / readlines succeed), compute new_lines
EditStart(readable) ==
    /\ gw.op = "edit"
    /\ gw.pc = "request"
    /\ IF ~validate_for_write(gw.path).ok THEN EditDone(400)
       ELSE IF gw.file.kind = "missing"
            THEN IF gw.create_if_missing
                 THEN gw' = [gw EXCEPT !.pc = "write",
                                       !.new_lines = ApplyEdits(<<>>, gw.edits)]
                 ELSE EditDone(404)
       ELSE IF gw.file.kind = "dir" THEN EditDone(400)
       ELSE IF ~readable THEN EditDone(500)
       ELSE gw' = [gw EXCEPT !.pc = "write",
                             !.new_lines = ApplyEdits(ReadLines(gw.file.content), gw.edits)]
    /\ UNCHANGED <<now, cfg, storeVars, callVars, toolVars, pv>>

\* open(resolved, "w"): fails and leaves the file alone, or creates /
\* truncates the file
EditOpen(opened) ==
    /\ gw.op = "edit"
    /\ gw.pc = "write"
    /\ IF opened
       THEN gw' = [gw EXCEPT !.pc = "writing",
                             !.file = [kind |-> "file", content |-> <<>>]]
       ELSE EditDone(500)
    /\ UNCHANGED <<now, cfg, storeVars, callVars, toolVars, pv>>

\* f.writelines(new_lines) and the close of the file: everything is written,
\* or an I/O error stops the write after the first written characters
EditWrite(written) ==
    /\ gw.op = "edit"
    /\ gw.pc = "writing"
    /\ LET data == JoinLines(gw.new_lines) IN
       /\ written \in 0..Len(data)
       /\ \/ /\ written = Len(data)
             /\ gw' = [gw EXCEPT !.pc = "done", !.status = 200, !.file.content = data]
          \/ gw' = [gw EXCEPT !.pc = "done", !.status = 500,
                              !.file.content = SubSeq(data, 1, written)]
    /\ UNCHANGED <<now, cfg, storeVars, callVars, toolVars, pv>>

NextEdit ==
    \/ \E readable \in BOOLEAN : EditStart(readable)
    \/ \E opened \in BOOLEAN : EditOpen(opened)
    \/ \E written \in 0..Len(JoinLines(gw.new_lines)) : EditWrite(written)

SpecEdit == InitEdit /\ [][NextEdit]_vars

\* C12: an edit request is all-or-nothing: after a success the file read back
\* is exactly the computed new lines; after a failure at any step the file on
\* disk is what it was before the request.
C12_EditAllOrNothing ==
    (gw.op = "edit" /\ gw.pc = "done") =>
        IF gw.status = 200
        THEN gw.file.kind = "file" /\ ReadLines(gw.file.content) = gw.new_lines
        ELSE gw.file = gw.before

\* the lines edit_file read before it applied the edits of the request
OriginalLines ==
    IF gw.before.kind = "file" THEN ReadLines(gw.before.content) ELSE <<>>

\* new_lines has been computed for the request
EditsApplied == gw.op = "edit" /\ (gw.pc \in {"write", "writing"} \/ gw.status = 200)

\* every ordering of the edits list
Orderings(edits) ==
    LET n == Len(edits)
        bijections == {p \in [1..n -> 1..n] : \A i, j \in 1..n : p[i] = p[j] => i = j}
    IN  { [i \in 1..n |-> edits[p[i]]] : p \in bijections }

\* C13: the edits of a batch are applied in descending line_start order
\* whatever their order in the request, so the resulting content is the same
\* for every ordering of the request's edits list.
C13_OrderIndependent ==
    EditsApplied =>
        \A edits \in Orderings(gw.edits) : ApplyEdits(OriginalLines, edits) = gw.new_lines

\* what of C13 the code does: the result does not depend on the ordering when
\* no two edits of the batch have the same line_start
C13_OrderIndependentDistinctStarts ==
    (/\ EditsApplied
     /\ \A i, j \in 1..Len(gw.edits) :
           gw.edits[i].line_start = gw.edits[j].line_start => i = j) =>
        \A edits \in Orderings(gw.edits) : ApplyEdits(OriginalLines, edits) = gw.new_lines

\* C14: for every file content, every k >= 1 and every one-line content x, the
\* batch [insert x at k; delete line k] leaves the file content as it was.
C14_InsertDeleteIdentity ==
    (/\ gw.op = "edit"
     /\ gw.status = 200
     /\ Len(gw.edits) = 2
     /\ gw.edits[1].action = "insert"
     /\ gw.edits[2] = EditOp("delete", gw.edits[1].line_start, 0, <<>>)) =>
        gw.file.content = gw.before.content

\* what of C14 the code does: the computed lines are the lines read when k is
\* at most the number of lines of the file plus one
C14_InsertDeleteIdentityInRange ==
    (/\ gw.op = "edit"
     /\ gw.status = 200
     /\ Len(gw.edits) = 2
     /\ gw.edits[1].action = "insert"
     /\ gw.edits[2] = EditOp("delete", gw.edits[1].line_start, 0, <<>>)
     /\ gw.edits[1].line_start <= Len(OriginalLines) + 1) =>
        gw.new_lines = OriginalLines

(***************************************************************************)
(* POST /read (read_file)                                                  *)
(***************************************************************************)
MaxOutputLines   == 2   \* settings.max_output_lines of the container
MaxFileSizeBytes == 3   \* settings.max_file_size_bytes of the container

\* variant of the line range that takes line_start as a 0-based index
SelectedLines0(lines, line_start, line_end) ==
    LET total == Len(lines)
        start == Max(0, Min(IF line_start # 0 THEN line_start ELSE 1, total))
        end   == Max(start, Min(IF line_end # 0 THEN line_end ELSE total, total))
    IN  SubSeq(lines, start + 1, end)

\* lines[start:end] of read_file; line_start = 0 and line_end = 0 stand for None
SelectedLines(lines, line_start, line_end) ==
    LET total == Len(lines)
        start == Max(0, Min((IF line_start # 0 THEN line_start ELSE 1) - 1, total))
        end   == Max(start, Min(IF line_end # 0 THEN line_end ELSE total, total))
    IN  SubSeq(lines, start + 1, end)

\* the ReadResponse for the lines of a text file
ReadResponse(lines, line_start, line_end) ==
    LET selected_lines == SelectedLines(lines, line_start, line_end)
        truncated == Len(selected_lines) >= MaxOutputLines
        returned  == IF truncated THEN SubSeq(selected_lines, 1, MaxOutputLines)
                     ELSE selected_lines
    IN  [ status |-> 200, content |-> JoinLines(returned), total_lines |-> Len(lines),
          lines_returned |-> Len(returned), truncated |-> truncated,
          is_binary |-> FALSE ]

BinaryResponse ==
    [ status |-> 200, content |-> <<"[", "b", "i", "n", "]">>, total_lines |-> 0,
      lines_returned |-> 0, truncated |-> FALSE, is_binary |-> TRUE ]

ErrorResponse(status) == [status |-> status]

\* paths of the read requests: the file, a directory, a missing file, a
\* blocked name
ReadPaths == { <<"a", ".", "t", "x", "t">>, <<"s", "u", "b">>, <<"n", "e", "w", ".", "t", "x", "t">>, <<"k", ".", "p", "e", "m">> }

\* what the path of a read request denotes: the file holds a text of up to
\* MaxFileSizeBytes + 1 characters, or bytes that is_binary takes for binary
ReadTargets(path) ==
    LET v == validate(path) IN
    IF v.ok /\ v.path = ServedFile
    THEN { [kind |-> "file", content |-> c, binary |-> b] :
              c \in TextsUpTo(MaxFileSizeBytes + 1), b \in BOOLEAN }
    ELSE IF v.ok /\ v.path \in Dirs
    THEN { [kind |-> "dir", content |-> <<>>, binary |-> FALSE] }
    ELSE { [kind |-> "missing", content |-> <<>>, binary |-> FALSE] }

\* POST /read arrives
ReadRequest(path, line_start, line_end, file) ==
    [ op |-> "read", path |-> path, line_start |-> line_start,
      line_end |-> line_end, file |-> file, pc |-> "request",
      resp |-> ErrorResponse(0) ]

InitRead ==
    /\ AdapterIdle
    /\ pv = NoPathCall
    /\ \E path \in ReadPaths, line_start \in 0..(MaxLine + 1), line_end \in 0..(MaxLine + 1) :
          \E file \in ReadTargets(path) :
              gw = ReadRequest(path, line_start, line_end, file)

\* read_file; readable tells whether open / readlines succeed
ReadFile(readable) ==
    /\ gw.op = "read"
    /\ gw.pc = "request"
    /\ gw' = [gw EXCEPT !.pc = "done", !.resp =
                IF ~validate(gw.path).ok THEN ErrorResponse(400)
                ELSE IF gw.file.kind = "missing" THEN ErrorResponse(404)
                ELSE IF gw.file.kind = "dir" THEN ErrorResponse(400)
                ELSE IF Len(gw.file.content) > MaxFileSizeBytes THEN ErrorResponse(400)
                ELSE IF gw.file.binary THEN BinaryResponse
                ELSE IF ~readable THEN ErrorResponse(500)
                ELSE ReadResponse(ReadLines(gw.file.content), gw.line_start, gw.line_end)]
    /\ UNCHANGED <<now, cfg, storeVars, callVars, toolVars, pv>>

NextRead == \E readable \in BOOLEAN : ReadFile(readable)

SpecRead == InitRead /\ [][NextRead]_vars

\* the lines of the file numbered max(1, line_start) .. min(line_end, total)
RequestedRange ==
    LET lines == ReadLines(gw.file.content)
        first == IF gw.line_start # 0 THEN gw.line_start ELSE 1
        stop  == Min(IF gw.line_end # 0 THEN gw.line_end ELSE Len(lines), Len(lines))
    IN  [i \in 1..(IF stop >= first THEN stop - first + 1 ELSE 0) |-> lines[first + i - 1]]

\* a text read succeeded
TextRead == gw.op = "read" /\ gw.pc = "done" /\ gw.resp.status = 200 /\ ~gw.resp.is_binary

\* C15 as stated: read returns exactly the lines numbered max(1, line_start) ..
\* min(line_end, total), lines_returned is the number of lines of the content
\* and at most max_output_lines, truncated is true exactly when the returned
\* line count equals the cap.
C15_ReadExactRange ==
    TextRead =>
        /\ gw.resp.content = JoinLines(RequestedRange)
        /\ gw.resp.lines_returned = Len(ReadLines(gw.resp.content))
        /\ gw.resp.lines_returned <= MaxOutputLines
        /\ gw.resp.truncated <=> gw.resp.lines_returned = MaxOutputLines

\* C15 amended: read returns the first max_output_lines lines of that range
\* (all of it when it is shorter), total_lines is the number of lines of the
\* file, lines_returned is the number of lines of the content and at most
\* max_output_lines, truncated is true exactly when the returned line count
\* equals the cap.
C15_ReadRangeUpToCap ==
    TextRead =>
        /\ gw.resp.content =
              JoinLines(SubSeq(RequestedRange, 1, Min(Len(RequestedRange), MaxOutputLines)))
        /\ gw.resp.total_lines = Len(ReadLines(gw.file.content))
        /\ gw.resp.lines_returned = Len(ReadLines(gw.resp.content))
        /\ gw.resp.lines_returned <= MaxOutputLines
        /\ gw.resp.truncated <=> gw.resp.lines_returned = MaxOutputLines

\* C15 witness: a range of three lines was asked of a three-line file and the
\* first max_output_lines of them were returned, flagged as truncated.
C15_Witness ==
    /\ TextRead
    /\ Len(RequestedRange) > MaxOutputLines
    /\ gw.line_start = 1
    /\ gw.resp.lines_returned = MaxOutputLines
    /\ gw.resp.truncated

(***************************************************************************)
(* POST /execute (execute_command)                                         *)
(***************************************************************************)
MaxTimeout   == 2     \* settings.max_timeout of the container
CharsPerLine == 100   \* max_output = settings.max_output_lines * 100

GatewayBlockedCommands ==
    { <<"s", "u", "d", "o">>, <<"s", "u">>, <<"c", "h", "m", "o", "d">>, <<"c", "h", "o", "w", "n">>, <<"c", "h", "g", "r", "p">>, <<"m", "o", "u", "n", "t">>, <<"u", "m", "o", "u", "n", "t">>, <<"m", "k", "f", "s">>,
      <<"f", "d", "i", "s", "k">>, <<"d", "d">>, <<"r", "e", "b", "o", "o", "t">>, <<"s", "h", "u", "t", "d", "o", "w", "n">>, <<"h", "a", "l", "t">>, <<"i", "n", "i", "t">>, <<"i", "p", "t", "a", "b", "l", "e", "s">>,
      <<"i", "p", "6", "t", "a", "b", "l", "e", "s">>, <<"n", "f", "t">>, <<"p", "a", "s", "s", "w", "d">>, <<"u", "s", "e", "r", "a", "d", "d">>, <<"u", "s", "e", "r", "d", "e", "l">>, <<"u", "s", "e", "r", "m", "o", "d">>, <<"n", "c">>,
      <<"n", "e", "t", "c", "a", "t">>, <<"n", "c", "a", "t">> }

DANGEROUS_PATTERNS ==
    { <<"|", " ", "s", "h">>, <<"|", " ", "b", "a", "s", "h">>, <<"|", " ", "z", "s", "h">>, <<BackQuote>>, <<"$", "(">>, <<">", " ", "/", "d", "e", "v", "/">>, <<">", ">", " ", "/", "d", "e", "v", "/">>,
      <<"/", "e", "t", "c", "/">>, <<"/", "v", "a", "r", "/">>, <<"/", "u", "s", "r", "/">>, <<"~", "/", ".", "s", "s", "h">>, <<"~", "/", ".", "g", "n", "u", "p", "g">> }

DoubleQuote == "\""

\* shlex.split(command), for commands made of plain words, blanks and double
\* quotes: an unbalanced quote is a ValueError, parts[0] is the first word
ShlexSplit(command) ==
    LET quotes == {i \in 1..Len(command) : command[i] = DoubleQuote}
        s == Strip(command)
    IN  IF Cardinality(quotes) % 2 = 1 THEN [ok |-> FALSE, first |-> <<>>, empty |-> FALSE]
        ELSE [ok |-> TRUE, first |-> FirstWord(s), empty |-> s = <<>>]

\* validate_command: 0 when the command passes, else the HTTP status raised
validate_command(command) ==
    LET parts == ShlexSplit(command) IN
    IF ~parts.ok THEN 400
    ELSE IF parts.empty THEN 400
    ELSE IF LastSlashPart(parts.first) \in GatewayBlockedCommands THEN 403
    ELSE IF \E pattern \in DANGEROUS_PATTERNS : Contains(command, pattern) THEN 403
    ELSE 0

\* the timeout handed to subprocess.run, without the clamp
RequestedTimeout(requested) == requested

\* the timeout handed to subprocess.run
EffectiveTimeout(requested) == Min(requested, MaxTimeout)

DigitChars == <<"0", "1", "2", "3", "4", "5", "6", "7", "8", "9">>

RECURSIVE Decimal(_)
\* str(n) for n >= 0
Decimal(n) ==
    IF n < 10 THEN <<DigitChars[n + 1]>>
    ELSE Decimal(n \div 10) \o <<DigitChars[(n % 10) + 1]>>

Sentinel == <<NL>> \o <<".", ".", ".", " ", "(", "o", "u", "t", "p", "u", "t", " ", "t", "r", "u", "n", "c", "a", "t", "e", "d", ")">>

TimeoutMessage(timeout) == <<"C", "o", "m", "m", "a", "n", "d", " ", "t", "i", "m", "e", "d", " ", "o", "u", "t", " ", "a", "f", "t", "e", "r", " ">> \o Decimal(timeout) \o <<" ", "s", "e", "c", "o", "n", "d", "s">>

\* stdout[:max_output] + sentinel when the text is longer than max_output
TruncateOutput(text) ==
    LET max_output == MaxOutputLines * CharsPerLine IN
    IF Len(text) > max_output THEN SubSeq(text, 1, max_output) \o Sentinel ELSE text

\* the ExecuteResponse for a child that finished
FinishedResponse(result) ==
    LET max_output == MaxOutputLines * CharsPerLine IN
    [ status |-> 200, success |-> result.returncode = 0,
      exit_code |-> result.returncode,
      stdout |-> TruncateOutput(result.stdout),
      stderr |-> TruncateOutput(result.stderr),
      truncated |-> Len(result.stdout) > max_output \/ Len(result.stderr) > max_output ]

\* the ExecuteResponse after subprocess.TimeoutExpired
TimeoutResponse(timeout) ==
    [ status |-> 200, success |-> FALSE, exit_code |-> -1, stdout |-> <<>>,
      stderr |-> TimeoutMessage(timeout), truncated |-> FALSE ]

HttpError(status) ==
    [ status |-> status, success |-> FALSE, exit_code |-> 0, stdout |-> <<>>,
      stderr |-> <<>>, truncated |-> FALSE ]

\* commands sent to /execute
GatewayCommands ==
    { <<"l", "s">>, <<"s", "u", "d", "o", " ", "l", "s">>, <<"/", "b", "i", "n", "/", "s", "u">>, <<"c", "a", "t", " ", "/", "e", "t", "c", "/", "p", "a", "s", "s", "w", "d">>, <<"k", "i", "l", "l", " ", "-", "1", " ", "$", "$">>,
      <<"e", "c", "h", "o", " ">> \o <<DoubleQuote>> \o <<"x">>, <<" ">>,
      <<"c", "a", "t", " ", "/", "e", "t", "c", "/", "x", " ">> \o <<DoubleQuote>> }

\* cwd of the request; the empty string stands for None
CwdInputs == { <<>>, <<"s", "u", "b">>, <<".", ".", "/", "x">> }

\* subprocess returncode of a child that finished: its exit status, or -N
\* when signal N ended it (1 = SIGHUP, 9 = SIGKILL)
ReturnCodes == {0, 1, -1, -9}

\* a text of n characters
Filled(n) == [i \in 1..n |-> "x"]

\* output a child can leave on a pipe: nothing, max_output characters, one more
Outputs ==
    { Filled(0), Filled(MaxOutputLines * CharsPerLine),
      Filled(MaxOutputLines * CharsPerLine + 1) }

\* POST /execute arrives; duration is the time the command needs
ExecuteRequest(command, timeout, cwd, duration) ==
    [ op |-> "execute", command |-> command, timeout |-> timeout, cwd |-> cwd,
      duration |-> duration, pc |-> "request", ran |-> FALSE,
      result |-> [returncode |-> 0, stdout |-> <<>>, stderr |-> <<>>],
      resp |-> HttpError(0) ]

InitExecute ==
    /\ AdapterIdle
    /\ pv = NoPathCall
    /\ \E command \in GatewayCommands, timeout \in 1..(MaxTimeout + 1),
          cwd \in CwdInputs, duration \in 0..(MaxTimeout + 2) :
          gw = ExecuteRequest(command, timeout, cwd, duration)

\* execute_command; spawned tells whether subprocess.run could start the
\* shell, result is what the child leaves when it finishes in time
ExecuteCommand(spawned, result) ==
    /\ gw.op = "execute"
    /\ gw.pc = "request"
    /\ LET timeout == EffectiveTimeout(gw.timeout)
           rejected == validate_command(gw.command)
       IN  IF rejected # 0
           THEN gw' = [gw EXCEPT !.pc = "done", !.resp = HttpError(rejected)]
           ELSE IF gw.cwd # <<>> /\ ~validate(gw.cwd).ok
           THEN gw' = [gw EXCEPT !.pc = "done", !.resp = HttpError(400)]
           ELSE IF ~spawned
           THEN gw' = [gw EXCEPT !.pc = "done", !.resp = HttpError(500)]
           ELSE IF gw.duration > timeout
           THEN gw' = [gw EXCEPT !.pc = "done", !.ran = TRUE,
                                 !.resp = TimeoutResponse(timeout)]
           ELSE gw' = [gw EXCEPT !.pc = "done", !.ran = TRUE, !.result = result,
                                 !.resp = FinishedResponse(result)]
    /\ UNCHANGED <<now, cfg, storeVars, callVars, toolVars, pv>>

NextExecute ==
    \E spawned \in BOOLEAN, returncode \in ReturnCodes, stdout \in Outputs, stderr \in Outputs :
        ExecuteCommand(spawned, [returncode |-> returncode, stdout |-> stdout, stderr |-> stderr])

SpecExecute == InitExecute /\ [][NextExecute]_vars

\* the command ran and finished within the timeout
FinishedInTime ==
    gw.op = "execute" /\ gw.pc = "done" /\ gw.ran /\ gw.duration <= Min(gw.timeout, MaxTimeout)

\* the command ran and did not finish within the timeout
TimedOut ==
    gw.op = "execute" /\ gw.pc = "done" /\ gw.ran /\ gw.duration > Min(gw.timeout, MaxTimeout)

\* C16: the stdout and the stderr returned by execute have at most
\* max_output_lines x 100 characters each; whenever the raw output is longer,
\* truncated is true and the returned text ends with the sentinel line.
C16_OutputBounded ==
    FinishedInTime =>
        /\ Len(gw.resp.stdout) <= MaxOutputLines * CharsPerLine
        /\ Len(gw.resp.stderr) <= MaxOutputLines * CharsPerLine
        /\ Len(gw.result.stdout) > MaxOutputLines * CharsPerLine
              => gw.resp.truncated /\ HasSuffix(gw.resp.stdout, Sentinel)
        /\ Len(gw.result.stderr) > MaxOutputLines * CharsPerLine
              => gw.resp.truncated /\ HasSuffix(gw.resp.stderr, Sentinel)

\* what execute_command does: a cut text has max_output characters of output
\* followed by the sentinel, so its length is max_output plus the sentinel's
C16_OutputBoundedPlusSentinel ==
    FinishedInTime =>
        /\ Len(gw.resp.stdout) <= MaxOutputLines * CharsPerLine + Len(Sentinel)
        /\ Len(gw.resp.stderr) <= MaxOutputLines * CharsPerLine + Len(Sentinel)
        /\ Len(gw.result.stdout) > MaxOutputLines * CharsPerLine
              => gw.resp.truncated /\ HasSuffix(gw.resp.stdout, Sentinel)
        /\ Len(gw.result.stderr) > MaxOutputLines * CharsPerLine
              => gw.resp.truncated /\ HasSuffix(gw.resp.stderr, Sentinel)

\* C17: the command runs with timeout min(requested, max_timeout); when it
\* does not finish within it the response is a 2xx result with success=false,
\* exit_code=-1, a stderr naming the timeout and truncated=false; a command
\* that finished in time never has exit_code=-1.
C17_TimeoutResult ==
    /\ TimedOut =>
          /\ gw.resp.status = 200
          /\ ~gw.resp.success
          /\ gw.resp.exit_code = -1
          /\ Contains(gw.resp.stderr, <<"t", "i", "m", "e", "d", " ", "o", "u", "t">>)
          /\ ~gw.resp.truncated
    /\ FinishedInTime =>
          /\ gw.resp.exit_code = gw.result.returncode
          /\ gw.resp.exit_code # -1

\* what execute_command does: the timeout part of C17, and the returncode of
\* a command that finished in time passed through whatever it is
C17_TimeoutResultOnly ==
    /\ TimedOut =>
          /\ gw.resp.status = 200
          /\ ~gw.resp.success
          /\ gw.resp.exit_code = -1
          /\ Contains(gw.resp.stderr, <<"t", "i", "m", "e", "d", " ", "o", "u", "t">>)
          /\ ~gw.resp.truncated
    /\ FinishedInTime => gw.resp.exit_code = gw.result.returncode

(***************************************************************************)
(* services/sensitivity_classifier.py: classification by regular           *)
(* expressions.  A pattern is a sequence of tokens; re.search is a match   *)
(* of the tokens starting at some position of the text.                    *)
(***************************************************************************)
Lit(w)       == [t |-> "lit", w |-> w]     \* the characters of w
OneOf(w)     == [t |-> "set", w |-> w]     \* [..]
NoneOf(w)    == [t |-> "not", w |-> w]     \* [^..]
Optional(w)  == [t |-> "opt", w |-> w]     \* (w)?
WordBoundary == [t |-> "b", w |-> <<>>]    \* \b
Spaces0      == [t |-> "s*", w |-> <<>>]   \* \s*
Spaces1      == [t |-> "s+", w |-> <<>>]   \* \s+
AnyRun       == [t |-> ".*", w |-> <<>>]   \* .*
AnyChar      == [t |-> ".", w |-> <<>>]    \* .
LineStart    == [t |-> "^", w |-> <<>>]    \* ^
LineEnd      == [t |-> "$", w |-> <<>>]    \* $

\* \b at position i: exactly one of s[i-1], s[i] is a word character
BoundaryAt(s, i) ==
    (i > 1 /\ IsWordChar(s[i - 1])) # (i <= Len(s) /\ IsWordChar(s[i]))

RECURSIVE MatchAt(_, _, _)
\* the tokens match s from position i on
MatchAt(tokens, s, i) ==
    IF tokens = <<>> THEN TRUE
    ELSE LET tk == Head(tokens)
             rest == Tail(tokens)
         IN  CASE tk.t = "lit" -> OccursAt(s, i, tk.w) /\ MatchAt(rest, s, i + Len(tk.w))
               [] tk.t = "set" -> i <= Len(s) /\ s[i] \in Range(tk.w) /\ MatchAt(rest, s, i + 1)
               [] tk.t = "not" -> i <= Len(s) /\ s[i] \notin Range(tk.w) /\ MatchAt(rest, s, i + 1)
               [] tk.t = "opt" -> \/ (OccursAt(s, i, tk.w) /\ MatchAt(rest, s, i + Len(tk.w)))
                                  \/ MatchAt(rest, s, i)
               [] tk.t = "b"   -> BoundaryAt(s, i) /\ MatchAt(rest, s, i)
               [] tk.t = "s*"  -> \E j \in i..(Len(s) + 1) :
                                     SpacesBetween(s, i, j) /\ MatchAt(rest, s, j)
               [] tk.t = "s+"  -> \E j \in (i + 1)..(Len(s) + 1) :
                                     SpacesBetween(s, i, j) /\ MatchAt(rest, s, j)
               [] tk.t = ".*"  -> \E j \in i..(Len(s) + 1) :
                                     /\ \A k \in i..(j - 1) : s[k] # NL
                                     /\ MatchAt(rest, s, j)
               [] tk.t = "."   -> i <= Len(s) /\ s[i] # NL /\ MatchAt(rest, s, i + 1)
               [] tk.t = "^"   -> i = 1 /\ MatchAt(rest, s, i)
               [] tk.t = "$"   -> /\ i = Len(s) + 1 \/ (i = Len(s) /\ s[i] = NL)
                                  /\ MatchAt(rest, s, i)

\* re.search(pattern, s)
Search(pattern, s) == \E i \in 1..(Len(s) + 1) : MatchAt(pattern, s, i)

\* the alternatives of the patterns of each list (a pattern x|y is the two
\* alternatives x and y)
BLOCKED_COMMAND_PATTERNS ==
    {
      <<LineStart, Spaces0, Lit(<<"s", "u", "d", "o">>), WordBoundary>>,
      <<WordBoundary, Lit(<<"s", "u", "d", "o">>), Spaces1>>,
      <<WordBoundary, Lit(<<"r", "m">>), Spaces1, Lit(<<"-", "r", "f">>), Spaces1, Lit(<<"/">>), Spaces0, LineEnd>>,
      <<WordBoundary, Lit(<<"r", "m">>), Spaces1, Lit(<<"-", "r", "f">>), Spaces1, Lit(<<"/">>), NoneOf(<<"/">>)>>,
      <<WordBoundary, Lit(<<"c", "u", "r", "l">>), Spaces1, AnyRun, Lit(<<"|">>), Spaces0, Optional(<<"b", "a">>), Lit(<<"s", "h">>)>>,
      <<WordBoundary, Lit(<<"w", "g", "e", "t">>), Spaces1, AnyRun, Lit(<<"|">>), Spaces0, Optional(<<"b", "a">>), Lit(<<"s", "h">>)>>,
      <<WordBoundary, Lit(<<"n", "c">>), Spaces1, Lit(<<"-">>), OneOf(<<"e", "l">>)>>,
      <<WordBoundary, Lit(<<"n", "c", "a", "t">>), Spaces1, Lit(<<"-">>), OneOf(<<"e", "l">>)>>,
      <<WordBoundary, Lit(<<"n", "e", "t", "c", "a", "t">>), Spaces1, Lit(<<"-">>), OneOf(<<"e", "l">>)>>,
      <<WordBoundary, Lit(<<"c", "h", "m", "o", "d">>), Spaces1, Lit(<<"7", "7", "7">>), Spaces1, Lit(<<"/">>)>>,
      <<WordBoundary, Lit(<<"c", "h", "o", "w", "n">>), Spaces1, AnyRun, Spaces1, Lit(<<"/">>)>>,
      <<WordBoundary, Lit(<<"m", "k", "f", "s">>), WordBoundary>>,
      <<WordBoundary, Lit(<<"d", "d">>), Spaces1, AnyRun, Lit(<<"o", "f", "=", "/", "d", "e", "v", "/">>)>>,
      <<WordBoundary, Lit(<<":">>), Lit(<<"{", " ", ":">>)>>,
      <<Lit(<<":", "&", " ", "}", ";", ":">>)>> }

HIGH_SENSITIVITY_PATTERNS ==
    {
      <<WordBoundary, Lit(<<"r", "m">>), Spaces1, Lit(<<"-", "r", "f">>), WordBoundary>>,
      <<WordBoundary, Lit(<<"r", "m">>), Spaces1, Lit(<<"-", "r">>), WordBoundary>>,
      <<WordBoundary, Lit(<<"g", "i", "t">>), Spaces1, Lit(<<"p", "u", "s", "h">>), WordBoundary>>,
      <<WordBoundary, Lit(<<"g", "i", "t">>), Spaces1, Lit(<<"p", "u", "s", "h">>), Spaces1, Lit(<<"-", "-", "f", "o", "r", "c", "e">>)>>,
      <<WordBoundary, Lit(<<"g", "i", "t">>), Spaces1, Lit(<<"r", "e", "s", "e", "t">>), Spaces1, Lit(<<"-", "-", "h", "a", "r", "d">>)>>,
      <<WordBoundary, Lit(<<"d", "o", "c", "k", "e", "r">>), Spaces1, Lit(<<"r", "m">>), WordBoundary>>,
      <<WordBoundary, Lit(<<"d", "o", "c", "k", "e", "r">>), Spaces1, Lit(<<"r", "m", "i">>), WordBoundary>>,
      <<WordBoundary, Lit(<<"k", "i", "l", "l">>), Spaces1, Lit(<<"-", "9">>), WordBoundary>>,
      <<WordBoundary, Lit(<<"p", "k", "i", "l", "l">>), WordBoundary>>,
      <<WordBoundary, Lit(<<"k", "i", "l", "l", "a", "l", "l">>), WordBoundary>>,
      <<WordBoundary, Lit(<<"t", "r", "u", "n", "c", "a", "t", "e">>), WordBoundary>>,
      <<WordBoundary, Lit(<<"s", "h", "r", "e", "d">>), WordBoundary>> }

PROMPT_PATTERNS ==
    {
      <<WordBoundary, Lit(<<"m", "v">>), Spaces1>>,
      <<WordBoundary, Lit(<<"c", "p">>), Spaces1, Lit(<<"-", "r">>)>>,
      <<WordBoundary, Lit(<<"n", "p", "m">>), Spaces1, Lit(<<"i", "n", "s", "t", "a", "l", "l">>), WordBoundary>>,
      <<WordBoundary, Lit(<<"n", "p", "m">>), Spaces1, Lit(<<"i">>), WordBoundary>>,
      <<WordBoundary, Lit(<<"y", "a", "r", "n">>), Spaces1, Lit(<<"a", "d", "d">>), WordBoundary>>,
      <<WordBoundary, Lit(<<"p", "i", "p">>), Spaces1, Lit(<<"i", "n", "s", "t", "a", "l", "l">>), WordBoundary>>,
      <<WordBoundary, Lit(<<"g", "i", "t">>), Spaces1, Lit(<<"c", "o", "m", "m", "i", "t">>), WordBoundary>>,
      <<WordBoundary, Lit(<<"g", "i", "t">>), Spaces1, Lit(<<"m", "e", "r", "g", "e">>), WordBoundary>>,
      <<WordBoundary, Lit(<<"g", "i", "t">>), Spaces1, Lit(<<"r", "e", "b", "a", "s", "e">>), WordBoundary>>,
      <<WordBoundary, Lit(<<"g", "i", "t">>), Spaces1, Lit(<<"c", "h", "e", "c", "k", "o", "u", "t">>), WordBoundary>>,
      <<WordBoundary, Lit(<<"g", "i", "t">>), Spaces1, Lit(<<"b", "r", "a", "n", "c", "h">>), Spaces1, Lit(<<"-">>), OneOf(<<"d", "D">>)>>,
      <<WordBoundary, Lit(<<"c", "h", "m", "o", "d">>), WordBoundary>>,
      <<WordBoundary, Lit(<<"c", "h", "o", "w", "n">>), WordBoundary>> }

AUTO_PATTERNS ==
    {
      <<LineStart, Spaces0, Lit(<<"l", "s">>), WordBoundary>>,
      <<LineStart, Spaces0, Lit(<<"c", "a", "t">>), WordBoundary>>,
      <<LineStart, Spaces0, Lit(<<"h", "e", "a", "d">>), WordBoundary>>,
      <<LineStart, Spaces0, Lit(<<"t", "a", "i", "l">>), WordBoundary>>,
      <<LineStart, Spaces0, Lit(<<"g", "r", "e", "p">>), WordBoundary>>,
      <<LineStart, Spaces0, Lit(<<"f", "i", "n", "d">>), WordBoundary>>,
      <<LineStart, Spaces0, Lit(<<"e", "c", "h", "o">>), WordBoundary>>,
      <<LineStart, Spaces0, Lit(<<"p", "w", "d">>), WordBoundary>>,
      <<LineStart, Spaces0, Lit(<<"w", "c">>), WordBoundary>>,
      <<LineStart, Spaces0, Lit(<<"d", "a", "t", "e">>), WordBoundary>>,
      <<LineStart, Spaces0, Lit(<<"w", "h", "o", "a", "m", "i">>), WordBoundary>>,
      <<LineStart, Spaces0, Lit(<<"w", "h", "i", "c", "h">>), WordBoundary>>,
      <<LineStart, Spaces0, Lit(<<"f", "i", "l", "e">>), WordBoundary>>,
      <<LineStart, Spaces0, Lit(<<"s", "t", "a", "t">>), WordBoundary>> }

\* classify_command with the high sensitivity patterns looked at first
service_classify_high_first(command) ==
    LET command_lower == Lower(command) IN
    IF \E pattern \in HIGH_SENSITIVITY_PATTERNS : Search(pattern, command_lower) THEN "high"
    ELSE IF \E pattern \in BLOCKED_COMMAND_PATTERNS : Search(pattern, command_lower) THEN "blocked"
    ELSE IF \E pattern \in PROMPT_PATTERNS : Search(pattern, command_lower) THEN "prompt"
    ELSE IF \E pattern \in AUTO_PATTERNS : Search(pattern, command_lower) THEN "auto"
    ELSE "prompt"

\* services.sensitivity_classifier.classify_command(command)
service_classify_command(command) ==
    LET command_lower == Lower(command) IN
    IF \E pattern \in BLOCKED_COMMAND_PATTERNS : Search(pattern, command_lower) THEN "blocked"
    ELSE IF \E pattern \in HIGH_SENSITIVITY_PATTERNS : Search(pattern, command_lower) THEN "high"
    ELSE IF \E pattern \in PROMPT_PATTERNS : Search(pattern, command_lower) THEN "prompt"
    ELSE IF \E pattern \in AUTO_PATTERNS : Search(pattern, command_lower) THEN "auto"
    ELSE "prompt"

MaxWords == 3

\* words the classified commands are made of
ClassifyWords ==
    { <<>>, <<"s", "u", "d", "o">>, <<"r", "m">>, <<"-", "r", "f">>, <<"/">>, <<"/", "e", "t", "c", "/">>, <<"l", "s">>, <<"m", "v">>, <<"g", "i", "t">>, <<"p", "u", "s", "h">>, <<"C", "h", "m", "o", "d">> }

\* the words joined by single blanks
JoinWords(words) ==
    IF words = <<>> THEN <<>>
    ELSE LET joined[i \in 1..Len(words)] ==
                 IF i = 1 THEN words[1] ELSE joined[i - 1] \o <<" ">> \o words[i]
         IN  joined[Len(words)]

ClassifyCommands ==
    { JoinWords(ws) : ws \in UNION { [1..n -> ClassifyWords] : n \in 0..MaxWords } }

ClassifyRequest(command) ==
    [ op |-> "classify", command |-> command, pc |-> "request",
      service |-> "-", adapter |-> "-" ]

InitClassify ==
    /\ AdapterIdle
    /\ pv = NoPathCall
    /\ \E command \in ClassifyCommands : gw = ClassifyRequest(command)

\* the command is classified by the service's and by the adapter's classifier
Classify ==
    /\ gw.op = "classify"
    /\ gw.pc = "request"
    /\ gw' = [gw EXCEPT !.pc = "done",
                        !.service = service_classify_command(gw.command),
                        !.adapter = classify_command(gw.command)]
    /\ UNCHANGED <<now, cfg, storeVars, callVars, toolVars, pv>>

NextClassify == Classify

SpecClassify == InitClassify /\ [][NextClassify]_vars

ClassRank(class) ==
    CASE class = "blocked" -> 4 [] class = "high" -> 3 [] class = "prompt" -> 2
      [] class = "auto" -> 1

\* the highest of the classes, PROMPT when there is none
HighestClass(classes) ==
    IF classes = {} THEN "prompt"
    ELSE CHOOSE c \in classes : \A d \in classes : ClassRank(c) >= ClassRank(d)

\* the classes whose pattern list of the service's classifier the lowercased
\* command matches
ServiceMatched(command) ==
    LET s == Lower(command) IN
    {"blocked" : x \in {p \in BLOCKED_COMMAND_PATTERNS : Search(p, s)}}
    \cup {"high" : x \in {p \in HIGH_SENSITIVITY_PATTERNS : Search(p, s)}}
    \cup {"prompt" : x \in {p \in PROMPT_PATTERNS : Search(p, s)}}
    \cup {"auto" : x \in {p \in AUTO_PATTERNS : Search(p, s)}}

\* the classes whose pattern or command set of the adapter the lowercased,
\* stripped command matches
AdapterMatched(command) ==
    LET s == Strip(Lower(command))
        base_cmd == LastSlashPart(FirstWord(s))
    IN  (IF MatchesBlockedPattern(s) \/ base_cmd \in BLOCKED_COMMANDS THEN {"blocked"} ELSE {})
        \cup (IF MatchesHighRisk(s) THEN {"high"} ELSE {})
        \cup (IF base_cmd \in PROMPT_COMMANDS THEN {"prompt"} ELSE {})
        \cup (IF base_cmd \in AUTO_APPROVE_COMMANDS THEN {"auto"} ELSE {})

Classified == gw.op = "classify" /\ gw.pc = "done"

\* the command has no word: it is empty or made of whitespace
Blank(command) == Strip(command) = <<>>

\* C18 as stated: in both classifiers the result is the highest class, in the
\* order BLOCKED > HIGH > PROMPT > AUTO, among the classes whose patterns the
\* lowercased command matches, and PROMPT when it matches none.
C18_HighestMatchingClass ==
    Classified =>
        /\ gw.service = HighestClass(ServiceMatched(gw.command))
        /\ gw.adapter = HighestClass(AdapterMatched(gw.command))

\* C18 amended: the same for every command that has a word; a command without
\* a word matches nothing and is PROMPT for the service's classifier and
\* BLOCKED for the adapter's.
C18_HighestMatchingClassOfWords ==
    Classified =>
        /\ gw.service = HighestClass(ServiceMatched(gw.command))
        /\ ~Blank(gw.command) => gw.adapter = HighestClass(AdapterMatched(gw.command))
        /\ Blank(gw.command) => gw.adapter = "blocked" /\ gw.service = "prompt"

\* C18 witness: a command that matches a BLOCKED and a HIGH pattern of both
\* classifiers was classified BLOCKED by both.
C18_Witness ==
    /\ Classified
    /\ {"blocked", "high"} \subseteq ServiceMatched(gw.command)
    /\ {"blocked", "high"} \subseteq AdapterMatched(gw.command)
    /\ gw.service = "blocked"
    /\ gw.adapter = "blocked"

\* a command matching no pattern of either classifier was classified PROMPT
C18_WitnessUnknown ==
    /\ Classified
    /\ ~Blank(gw.command)
    /\ ServiceMatched(gw.command) = {}
    /\ AdapterMatched(gw.command) = {}
    /\ gw.service = "prompt"
    /\ gw.adapter = "prompt"

\* the path matches one of the file patterns classify_file_operation tests
MatchesFilePattern(path) == \E p \in SensitivePatterns : GlobMatch(p, path)

\* C19: an edit_file operation whose path matches a blocked file pattern is
\* classified BLOCKED by the adapter: it ends with a blocked error, writes an
\* audit entry with result blocked, queues no approval request and sends no
\* request to /edit.
C19_BlockedFileEdit ==
    \A t \in Tasks :
        (PastValidation(t) /\ task[t].op = "edit_file"
            /\ MatchesFilePattern(task[t].target)) =>
            /\ classify_file_operation("edit_file", task[t].target) = "blocked"
            /\ task[t].pc = "done"
            /\ task[t].result = "blocked"
            /\ task[t].id = 0
            /\ SentBy(t) = {}
            /\ \E i \in AuditOf(t) :
                  audit[i].operation = "edit_file" /\ audit[i].result = "blocked"

\* what the adapter does: the edit of such a path is classified HIGH and
\* queued for approval; it is never ended as blocked, and it is sent to /edit
\* only after an approval.
C19_SensitiveFileEditQueued ==
    \A t \in Tasks :
        (PastValidation(t) /\ task[t].op = "edit_file"
            /\ MatchesFilePattern(task[t].target)) =>
            /\ classify_file_operation("edit_file", task[t].target) = "high"
            /\ task[t].id # 0
            /\ task[t].result # "blocked"
            /\ SentBy(t) # {} => task[t].wait = "approved"

\* an edit of .env was approved and sent to /edit
C19_EnvEditSent ==
    \E t \in Tasks :
        /\ task[t].op = "edit_file"
        /\ task[t].target = <<".", "e", "n", "v">>
        /\ \E i \in SentBy(t) : sent[i].endpoint = "/edit"

(***************************************************************************)
(* services/approval_interceptor.py: approval by a chat message.  The      *)
(* store, the index and the clock of this part are fields of gw.           *)
(***************************************************************************)
MaxPending == 2

APPROVE_PATTERNS ==
    {
      <<LineStart, Lit(<<"y", "e", "s">>), LineEnd>>,
      <<LineStart, Lit(<<"y">>), LineEnd>>,
      <<LineStart, Lit(<<"a", "p", "p", "r", "o", "v", "e">>), LineEnd>>,
      <<LineStart, Lit(<<"a", "p", "p", "r", "o", "v", "e", "d">>), LineEnd>>,
      <<LineStart, Lit(<<"o", "k">>), LineEnd>>,
      <<LineStart, Lit(<<"o", "k", "a", "y">>), LineEnd>>,
      <<LineStart, Lit(<<"g", "o", " ", "a", "h", "e", "a", "d">>), LineEnd>>,
      <<LineStart, Lit(<<"d", "o", " ", "i", "t">>), LineEnd>>,
      <<LineStart, Lit(<<"p", "r", "o", "c", "e", "e", "d">>), LineEnd>>,
      <<LineStart, Lit(<<"c", "o", "n", "f", "i", "r", "m">>), LineEnd>>,
      <<LineStart, Lit(<<"c", "o", "n", "f", "i", "r", "m", "e", "d">>), LineEnd>>,
      <<LineStart, Lit(<<"a", "l", "l", "o", "w">>), LineEnd>>,
      <<LineStart, Lit(<<"a", "l", "l", "o", "w", "e", "d">>), LineEnd>>,
      <<LineStart, Lit(<<"a", "c", "c", "e", "p", "t">>), LineEnd>>,
      <<LineStart, Lit(<<"a", "c", "c", "e", "p", "t", "e", "d">>), LineEnd>>,
      <<LineStart, Lit(<<"y", "e", "s">>), Optional(<<",">>), Spaces0, Lit(<<"p", "l", "e", "a", "s", "e">>), LineEnd>>,
      <<LineStart, Lit(<<"y", "e", "s">>), Optional(<<",">>), Spaces0, Lit(<<"g", "o", " ", "a", "h", "e", "a", "d">>), LineEnd>> }

REJECT_PATTERNS ==
    {
      <<LineStart, Lit(<<"n", "o">>), LineEnd>>,
      <<LineStart, Lit(<<"n">>), LineEnd>>,
      <<LineStart, Lit(<<"r", "e", "j", "e", "c", "t">>), LineEnd>>,
      <<LineStart, Lit(<<"r", "e", "j", "e", "c", "t", "e", "d">>), LineEnd>>,
      <<LineStart, Lit(<<"d", "e", "n", "y">>), LineEnd>>,
      <<LineStart, Lit(<<"d", "e", "n", "i", "e", "d">>), LineEnd>>,
      <<LineStart, Lit(<<"c", "a", "n", "c", "e", "l">>), LineEnd>>,
      <<LineStart, Lit(<<"c", "a", "n", "c", "e", "l", "l", "e", "d">>), LineEnd>>,
      <<LineStart, Lit(<<"s", "t", "o", "p">>), LineEnd>>,
      <<LineStart, Lit(<<"a", "b", "o", "r", "t">>), LineEnd>>,
      <<LineStart, Lit(<<"d", "o", "n">>), Optional(<<"'">>), Lit(<<"t">>), LineEnd>>,
      <<LineStart, Lit(<<"n", "o">>), Optional(<<",">>), Spaces0, Lit(<<"t", "h", "a", "n", "k", "s">>), LineEnd>>,
      <<LineStart, Lit(<<"n", "o">>), Optional(<<",">>), Spaces0, Lit(<<"d", "o", "n">>), Optional(<<"'">>), Lit(<<"t">>), LineEnd>>,
      <<LineStart, Lit(<<"n", "e", "v", "e", "r", "m", "i", "n", "d">>), LineEnd>>,
      <<LineStart, Lit(<<"n", "e", "v", "e", "r">>), Spaces0, Lit(<<"m", "i", "n", "d">>), LineEnd>> }

\* variant of _matches_patterns that does not ask the text to end where the
\* pattern ends
matches_patterns_prefix(text, patterns) ==
    LET text_lower == Strip(Lower(text)) IN
    \E pattern \in patterns : MatchAt(SubSeq(pattern, 1, Len(pattern) - 1), text_lower, 1)

\* _matches_patterns(text, patterns): re.match on the lowercased, stripped text
matches_patterns(text, patterns) ==
    LET text_lower == Strip(Lower(text)) IN
    \E pattern \in patterns : MatchAt(pattern, text_lower, 1)

\* messages of the user
Messages ==
    { <<"y", "e", "s">>,
      <<" ", "O", "K", " ">>,
      <<"Y", "e", "s", ",", " ", "p", "l", "e", "a", "s", "e">>,
      <<"y", "e", "s", " ", " ", "g", "o", " ", "a", "h", "e", "a", "d">>,
      <<"n", "o">>,
      <<"n", "o", ",", " ", "d", "o", "n", "'", "t">>,
      <<"n", "e", "v", "e", "r", " ", "m", "i", "n", "d">>,
      <<"h", "e", "l", "l", "o">>,
      <<"y", "e", "s", " ", "n", "o">>,
      <<>> }

PendingIds == 1..MaxPending

\* the orders in which a set can be iterated
IterationOrders(S) ==
    {f \in [1..Cardinality(S) -> S] : \A i, j \in 1..Cardinality(S) : i # j => f[i] # f[j]}

NoInterceptCall ==
    [ called |-> FALSE, user |-> "-", message |-> <<>>, pending |-> {}, chosen |-> 0,
      answer |-> "-" ]

\* latest = pending[0]
latest(pending, store) == pending[1]

InitIntercept ==
    /\ AdapterIdle
    /\ pv = NoPathCall
    /\ gw = [ op |-> "intercept", now |-> 0, kv |-> [id \in PendingIds |-> None],
              index |-> [u \in Users |-> EmptyIndex], nextId |-> 1,
              last |-> NoInterceptCall ]

\* queue_approval for user u with the default TTL
InterceptQueue(u) ==
    /\ gw.op = "intercept"
    /\ gw.nextId <= MaxPending
    /\ LET id  == gw.nextId
           ttl == EffectiveTTL(0)
           request == NewRequest(id, u, "execute", "prompt", ttl, gw.now)
       IN  gw' = [gw EXCEPT !.kv = StoreSetex(gw.kv, id, ttl, request, gw.now),
                            !.index = IndexAddExpire(gw.index, u, id, ttl + IndexExtraTTL, gw.now),
                            !.nextId = id + 1,
                            !.last = NoInterceptCall]
    /\ UNCHANGED <<now, cfg, storeVars, callVars, toolVars, pv>>

\* time passes; keys whose TTL has elapsed disappear
InterceptTick ==
    /\ gw.op = "intercept"
    /\ gw.now + Quantum <= MaxTime
    /\ gw' = [gw EXCEPT !.now = gw.now + Quantum,
                        !.kv = StoreExpire(gw.kv, gw.now + Quantum),
                        !.index = IndexExpire(gw.index, gw.now + Quantum),
                        !.last = NoInterceptCall]
    /\ UNCHANGED <<now, cfg, storeVars, callVars, toolVars, pv>>

\* check_for_approval_response(u, message); order is the order in which
\* smembers hands out the ids of the user's index
CheckForApprovalResponse(u, message, order) ==
    /\ gw.op = "intercept"
    /\ order \in IterationOrders(gw.index[u].ids)
    /\ LET IsPending(id) ==
               StoreGet(gw.kv, id) # None /\ StoreGet(gw.kv, id).status = "pending"
           pending == SelectSeq(order, IsPending)
           expired_ids == {id \in gw.index[u].ids : StoreGet(gw.kv, id) = None}
           index == [gw.index EXCEPT ![u].ids = @ \ expired_ids]
           is_approve == matches_patterns(message, APPROVE_PATTERNS)
           is_reject == matches_patterns(message, REJECT_PATTERNS)
       IN  IF pending = <<>> \/ (~is_approve /\ ~is_reject)
           THEN gw' = [gw EXCEPT !.index = index,
                                 !.last = [called |-> TRUE, user |-> u, message |-> message,
                                           pending |-> Range(pending),
                                           chosen |-> 0, answer |-> "none"]]
           ELSE LET id == latest(pending, gw.kv)
                    request == StoreGet(gw.kv, id)
                    status == IF is_approve THEN "approved" ELSE "rejected"
                IN  IF NotDecidable(request)
                    THEN gw' = [gw EXCEPT !.index = index,
                                          !.last = [called |-> TRUE, user |-> u, message |-> message,
                                           pending |-> Range(pending),
                                                    chosen |-> id, answer |-> "failed"]]
                    ELSE gw' = [gw EXCEPT
                                  !.index = index,
                                  !.kv = StoreSetex(gw.kv, id, ResidualTTL,
                                                    [request EXCEPT !.status = status], gw.now),
                                  !.last = [called |-> TRUE, user |-> u, message |-> message,
                                           pending |-> Range(pending),
                                            chosen |-> id, answer |-> status]]
    /\ UNCHANGED <<now, cfg, storeVars, callVars, toolVars, pv>>

NextIntercept ==
    \/ \E u \in Users : InterceptQueue(u)
    \/ InterceptTick
    \/ \E u \in Users, message \in Messages :
          \E order \in IterationOrders(gw.index[u].ids) :
              CheckForApprovalResponse(u, message, order)

SpecIntercept == InitIntercept /\ [][NextIntercept]_vars

\* the call just made found two or more pending requests of the user and a
\* message matching an approve or reject pattern
ResolvedAmongSeveral ==
    /\ gw.op = "intercept"
    /\ gw.last.called
    /\ gw.last.answer \in {"approved", "rejected", "failed"}
    /\ Cardinality(gw.last.pending) >= 2

\* C20: with two or more pending requests and a matching message,
\* check_for_approval_response resolves exactly one request, the user's
\* oldest pending one (smallest created_at); the others stay pending.
C20_ResolvesOldestPending ==
    ResolvedAmongSeveral =>
        /\ gw.last.chosen \in gw.last.pending
        /\ StoreGet(gw.kv, gw.last.chosen).status = gw.last.answer
        /\ \A id \in gw.last.pending \ {gw.last.chosen} :
              /\ StoreGet(gw.kv, id).status = "pending"
              /\ StoreGet(gw.kv, gw.last.chosen).created_at
                    <= StoreGet(gw.kv, id).created_at

\* what check_for_approval_response does: it resolves exactly one of the
\* pending requests, whichever the index hands out first, and the others
\* stay pending
C20_ResolvesOnePending ==
    ResolvedAmongSeveral =>
        /\ gw.last.chosen \in gw.last.pending
        /\ StoreGet(gw.kv, gw.last.chosen).status = gw.last.answer
        /\ \A id \in gw.last.pending \ {gw.last.chosen} :
              StoreGet(gw.kv, id).status = "pending"

\* the resolved request was created after another pending one
C20_YoungerResolved ==
    /\ ResolvedAmongSeveral
    /\ \E id \in gw.last.pending :
          StoreGet(gw.kv, id).created_at < StoreGet(gw.kv, gw.last.chosen).created_at

\* text is a, then whitespace (possibly none), then b
Spaced(text, a, b) ==
    /\ Len(text) >= Len(a) + Len(b)
    /\ SubSeq(text, 1, Len(a)) = a
    /\ SubSeq(text, Len(text) - Len(b) + 1, Len(text)) = b
    /\ \A k \in (Len(a) + 1)..(Len(text) - Len(b)) : IsSpace(text[k])

\* the trimmed, lowercased message is one of the approval phrases
ApprovePhrase(message) ==
    LET text == Strip(Lower(message)) IN
    \/ text \in { <<"y", "e", "s">>, <<"y">>, <<"a", "p", "p", "r", "o", "v", "e">>, <<"a", "p", "p", "r", "o", "v", "e", "d">>, <<"o", "k">>, <<"o", "k", "a", "y">>, <<"g", "o", " ", "a", "h", "e", "a", "d">>,
                  <<"d", "o", " ", "i", "t">>, <<"p", "r", "o", "c", "e", "e", "d">>, <<"c", "o", "n", "f", "i", "r", "m">>, <<"c", "o", "n", "f", "i", "r", "m", "e", "d">>, <<"a", "l", "l", "o", "w">>, <<"a", "l", "l", "o", "w", "e", "d">>,
                  <<"a", "c", "c", "e", "p", "t">>, <<"a", "c", "c", "e", "p", "t", "e", "d">> }
    \/ \E a \in { <<"y", "e", "s">>, <<"y", "e", "s", ",">> }, b \in { <<"p", "l", "e", "a", "s", "e">>, <<"g", "o", " ", "a", "h", "e", "a", "d">> } : Spaced(text, a, b)

\* the trimmed, lowercased message is one of the rejection phrases
RejectPhrase(message) ==
    LET text == Strip(Lower(message)) IN
    \/ text \in { <<"n", "o">>, <<"n">>, <<"r", "e", "j", "e", "c", "t">>, <<"r", "e", "j", "e", "c", "t", "e", "d">>, <<"d", "e", "n", "y">>, <<"d", "e", "n", "i", "e", "d">>, <<"c", "a", "n", "c", "e", "l">>,
                  <<"c", "a", "n", "c", "e", "l", "l", "e", "d">>, <<"s", "t", "o", "p">>, <<"a", "b", "o", "r", "t">>, <<"d", "o", "n", "t">>, <<"d", "o", "n", "'", "t">>, <<"n", "e", "v", "e", "r", "m", "i", "n", "d">> }
    \/ \E a \in { <<"n", "o">>, <<"n", "o", ",">> }, b \in { <<"t", "h", "a", "n", "k", "s">>, <<"d", "o", "n", "t">>, <<"d", "o", "n", "'", "t">> } : Spaced(text, a, b)
    \/ Spaced(text, <<"n", "e", "v", "e", "r">>, <<"m", "i", "n", "d">>)

\* the requests of user u that are pending
PendingOf(u) ==
    {id \in gw.index[u].ids :
        StoreGet(gw.kv, id) # None /\ StoreGet(gw.kv, id).status = "pending"}

\* C21: check_for_approval_response returns None and changes no approval
\* record when the user has no pending request or when the trimmed,
\* lowercased message is neither an approval nor a rejection phrase; no
\* message matches both pattern sets.
C21_NoResponseNoChange ==
    [][(gw.op = "intercept" /\ gw'.last.called) =>
          LET message == gw'.last.message IN
          /\ (PendingOf(gw'.last.user) = {}
                \/ (~ApprovePhrase(message) /\ ~RejectPhrase(message)))
                => (gw'.last.answer = "none" /\ gw'.kv = gw.kv)
          /\ ~(matches_patterns(message, APPROVE_PATTERNS)
                /\ matches_patterns(message, REJECT_PATTERNS))]_vars

\* C21 witness: a user with a pending request sent a message that is no
\* approval and no rejection phrase, and the call returned None.
C21_Witness ==
    /\ gw.op = "intercept"
    /\ gw.last.called
    /\ gw.last.pending # {}
    /\ gw.last.message = <<"y", "e", "s", " ", "n", "o">>
    /\ gw.last.answer = "none"

\* a user without pending request sent an approval phrase and the call
\* returned None
C21_WitnessNoPending ==
    /\ gw.op = "intercept"
    /\ gw.last.called
    /\ gw.last.pending = {}
    /\ ApprovePhrase(gw.last.message)
    /\ gw.last.answer = "none"

\* C22: the index set of user U contains only ids of requests of U that are
\* currently pending.
C22_IndexOnlyPending ==
    gw.op = "intercept" =>
        \A u \in Users : \A id \in gw.index[u].ids :
            /\ StoreGet(gw.kv, id) # None
            /\ StoreGet(gw.kv, id).user_id = u
            /\ StoreGet(gw.kv, id).status = "pending"

\* what the service does: right after a get_pending_for_user(U) read the
\* index of U holds no id whose record has vanished, and the ids it holds
\* belong to requests of U, pending or decided
C22_IndexAfterRead ==
    (gw.op = "intercept" /\ gw.last.called) =>
        \A id \in gw.index[gw.last.user].ids :
            /\ StoreGet(gw.kv, id) # None
            /\ StoreGet(gw.kv, id).user_id = gw.last.user

\* right after a read the index of the user holds the id of an approved request
C22_ApprovedIdIndexed ==
    /\ gw.op = "intercept"
    /\ gw.last.called
    /\ gw.last.answer = "none"
    /\ \E id \in gw.index[gw.last.user].ids : StoreGet(gw.kv, id).status = "approved"

(***************************************************************************)
(* queue_approval at an instant with a sub-second part                     *)
(***************************************************************************)
MaxSecond       == 3         \* creation instants lie in seconds 0..MaxSecond
MicrosPerSecond == 1000000   \* resolution of datetime

\* microsecond parts of the creation instants
MicroParts == {0, 1, 500000, 999999}

Instants == [sec : 0..MaxSecond, usec : MicroParts]

\* now.replace(microsecond=0) + timedelta(seconds=ttl)
ExpiresAt(instant, ttl) == [sec |-> instant.sec + ttl, usec |-> 0]

\* a - b in microseconds
MicrosBetween(a, b) == (a.sec - b.sec) * MicrosPerSecond + (a.usec - b.usec)

\* ApprovalRequest(...) as built by queue_approval at the instant utc_now()
NewRequestAt(id, u, operation, sensitivity, ttl, instant) ==
    [ id          |-> id,
      user_id     |-> u,
      operation   |-> operation,
      sensitivity |-> sensitivity,
      status      |-> "pending",
      created_at  |-> instant,
      expires_at  |-> ExpiresAt(instant, ttl) ]

\* ttl_seconds given to queue_approval; 0 stands for None
QueueTTLs == {0, 1, 30, 60}

InitQueue ==
    /\ AdapterIdle
    /\ pv = NoPathCall
    /\ \E instant \in Instants, ttl_seconds \in QueueTTLs, u \in Users :
          gw = [ op |-> "queue", user |-> u, instant |-> instant,
                 ttl_seconds |-> ttl_seconds, pc |-> "request",
                 stored |-> None, index |-> EmptyIndex ]

\* queue_approval(u, operation, details, sensitivity, ttl_seconds) run at
\* gw.instant: the record is stored with setex(key, ttl, ...) and the id is
\* added to the user's index
QueueApprovalAt ==
    /\ gw.op = "queue"
    /\ gw.pc = "request"
    /\ LET ttl == EffectiveTTL(gw.ttl_seconds)
           request == NewRequestAt(1, gw.user, "execute", "prompt", ttl, gw.instant)
       IN  gw' = [gw EXCEPT !.pc = "done",
                            !.stored = [rec |-> request, ttl |-> ttl],
                            !.index = [ids |-> {1}, exp |-> ttl + IndexExtraTTL]]
    /\ UNCHANGED <<now, cfg, storeVars, callVars, toolVars, pv>>

NextQueue == QueueApprovalAt

SpecQueue == InitQueue /\ [][NextQueue]_vars

\* the TTL asked of queue_approval, the service default when none is given
RequestedTTL == IF gw.ttl_seconds # 0 THEN gw.ttl_seconds ELSE cfg.default_ttl

\* C23: for a request created by queue_approval with TTL t seconds,
\* expires_at - created_at = t exactly, for every creation instant, and the
\* record's key is stored with TTL t.
C23_ExpiresAfterTTL ==
    (gw.op = "queue" /\ gw.pc = "done") =>
        /\ MicrosBetween(gw.stored.rec.expires_at, gw.stored.rec.created_at)
              = RequestedTTL * MicrosPerSecond
        /\ gw.stored.ttl = RequestedTTL

\* what queue_approval does: the key's TTL is t, and expires_at lies t seconds
\* after the creation instant cut to its whole second, less than t after
\* created_at when the instant has a sub-second part
C23_ExpiresAfterTruncatedInstant ==
    (gw.op = "queue" /\ gw.pc = "done") =>
        /\ MicrosBetween(gw.stored.rec.expires_at, gw.stored.rec.created_at)
              = RequestedTTL * MicrosPerSecond - gw.instant.usec
        /\ gw.stored.ttl = RequestedTTL

\* The program when approve / reject are reached through PATCH
\* /approvals/{id} only.
NextPatch ==
    \/ Tick
    \/ TaskStep
    \/ \E c \in Callers, id \in Ids, u \in Users, act \in {"approve", "reject"} :
          PatchCheck(c, id, u, act)
    \/ \E c \in Callers : CallGet(c)
    \/ \E c \in Callers : CallSet(c)

SpecPatch == Init /\ [][NextPatch]_vars

\* a PATCH call ends in this step with the answer out
PatchAnswers(out) == last' # last /\ last'.out = out

\* the PATCH call of c writes the record of id in this step
PatchWrites(c, id) ==
    caller[c].pc = "write" /\ caller[c].id = id /\ caller'[c].pc = "idle"

\* the three refusals of PATCH: 404 on a missing or expired id, 403 for a user
\* who is not the owner, 400 on a decided request, each leaving the store as
\* it is
PatchRefusals ==
    /\ PatchAnswers("404") => (GetStatus(last'.id) = None /\ kv' = kv)
    /\ PatchAnswers("403") => (GetStatus(last'.id) # None /\ kv' = kv)
    /\ PatchAnswers("400") =>
          (GetStatus(last'.id) # None /\ GetStatus(last'.id).status # "pending" /\ kv' = kv)

\* C24: PATCH /approvals/{id} changes a record only for the owner of a
\* pending request; by another user it answers 403, on a missing or expired
\* id 404, on a decided request 400, and in these cases the stored record is
\* unchanged.
C24_PatchOnlyPendingOwner ==
    [][/\ PatchRefusals
       /\ \A c \in Callers, id \in Ids :
             PatchWrites(c, id) =>
                 (GetStatus(id) # None /\ GetStatus(id).status = "pending")]_vars

\* what update_approval does: the three refusals are as stated
C24_PatchRefusals == [][PatchRefusals]_vars

\* a PATCH call wrote the record of a request that was already decided
C24_DecidedRecordWritten ==
    \E c \in Callers :
        /\ caller[c].pc = "write"
        /\ GetStatus(caller[c].id) # None
        /\ GetStatus(caller[c].id).status # "pending"

(***************************************************************************)
(* services/tree_indexer.py: the index of the workspace tree.  A node is   *)
(* the sequence of the names of a path below the workspace root; the table *)
(* files has one row per indexed path.                                     *)
(***************************************************************************)
MaxTreeDepth == 2      \* the workspace tree has at most this many levels
MaxPendingEvents == 2  \* at most this many paths wait for the debounce timer

\* names of files and directories of the workspace
TreeNames == { <<"a">>, <<".", "h">> }

\* names used below the first level
ChildNames == { <<"a">> }

TreeNodes ==
    {node \in UNION { [1..n -> TreeNames] : n \in 1..MaxTreeDepth } :
        \A k \in 2..Len(node) : node[k] \in ChildNames}

\* str(rel_path)
PathStr(node) == JoinSlash(node)

Parent(node) == SubSeq(node, 1, Len(node) - 1)

\* name.startswith(".")
StartsWithDot(name) == name # <<>> /\ name[1] = "."

NoRow == [type |-> "none", name |-> <<>>, depth |-> 0]

\* the row (path, name, type, size, mtime, depth) of a node; size and mtime
\* are left out
Row(node, type) == [type |-> type, name |-> node[Len(node)], depth |-> Len(node)]

\* the entries os.walk yields when hidden directories are pruned and hidden
\* files are skipped
WalkEntries(fs) ==
    {node \in TreeNodes :
        fs[node] # "none" /\ \A k \in 1..Len(node) : ~StartsWithDot(node[k])}

\* _full_reindex: DELETE FROM files, then one row per entry of the walk
full_reindex(fs) ==
    [node \in TreeNodes |->
        IF node \in WalkEntries(fs) THEN Row(node, fs[node]) ELSE NoRow]

RECURSIVE LikeMatch(_, _)
\* s LIKE pattern: % is any run of characters, _ is any one character,
\* letters compare without case
LikeMatch(pattern, s) ==
    IF pattern = <<>> THEN s = <<>>
    ELSE IF Head(pattern) = "%"
         THEN LikeMatch(Tail(pattern), s) \/ (s # <<>> /\ LikeMatch(pattern, Tail(s)))
         ELSE /\ s # <<>>
              /\ (Head(pattern) = "_" \/ LowerChar(Head(pattern)) = LowerChar(Head(s)))
              /\ LikeMatch(Tail(pattern), Tail(s))

\* _flush_updates: a pending path that exists gets INSERT OR REPLACE of its
\* row; for one that does not, its row and the rows below it are deleted
flush_updates(idx, fs, paths) ==
    [node \in TreeNodes |->
        IF node \in paths /\ fs[node] # "none"
        THEN Row(node, fs[node])
        ELSE IF \E p \in paths :
                  /\ fs[p] = "none"
                  /\ (PathStr(node) = PathStr(p)
                        \/ LikeMatch(PathStr(p) \o <<"/", "%">>, PathStr(node)))
        THEN NoRow
        ELSE idx[node]]

\* characters in the order of their codes
AsciiOrder ==
    << " ", "%", "*", "-", ".", "/", "0", "1", "2", "3", "4", "5", "6", "7", "8", "9",
       "_", "a", "b", "c", "d", "e", "f", "g", "h", "i", "j", "k", "l", "m", "n", "o",
       "p", "q", "r", "s", "t", "u", "v", "w", "x", "y", "z" >>

CharCode(ch) == CHOOSE i \in DOMAIN AsciiOrder : AsciiOrder[i] = ch

RECURSIVE StrLess(_, _)
\* a < b for the BINARY collation
StrLess(a, b) ==
    IF b = <<>> THEN FALSE
    ELSE IF a = <<>> THEN TRUE
    ELSE IF Head(a) # Head(b) THEN CharCode(Head(a)) < CharCode(Head(b))
    ELSE StrLess(Tail(a), Tail(b))

\* the characters of the type column
TypeStr(type) == IF type = "dir" THEN <<"d", "i", "r">> ELSE <<"f", "i", "l", "e">>

\* ORDER BY type DESC, path: r comes before o
OrderBefore(r, o) ==
    \/ StrLess(TypeStr(o.type), TypeStr(r.type))
    \/ (r.type = o.type /\ StrLess(r.path, o.path))

RECURSIVE OrderedRows(_)
\* the rows of a set in the order of the query
OrderedRows(rows) ==
    IF rows = {} THEN <<>>
    ELSE LET first == CHOOSE r \in rows : \A o \in rows \ {r} : OrderBefore(r, o)
         IN  <<first>> \o OrderedRows(rows \ {first})

\* str.strip("/")
RECURSIVE RStripSlash(_)
RStripSlash(s) ==
    IF s # <<>> /\ s[Len(s)] = "/" THEN RStripSlash(SubSeq(s, 1, Len(s) - 1)) ELSE s

StripSlash(s) == RStripSlash(LStripSlash(s))

\* depth = max(1, min(5, depth))
ClampDepth(depth) == Max(1, Min(5, depth))

\* variant of max_depth that reaches one level further
MaxDepthOneMore(path, depth) ==
    LET base_path == StripSlash(path)
        base_depth == IF base_path # <<>> THEN Len(PathParts(base_path)) ELSE 0
    IN  base_depth + ClampDepth(depth) + 1

\* max_depth = base_depth + depth
MaxDepthOf(path, depth) ==
    LET base_path == StripSlash(path)
        base_depth == IF base_path # <<>> THEN Len(PathParts(base_path)) ELSE 0
    IN  base_depth + ClampDepth(depth)

\* get_structure(path, depth, include_hidden, pattern): the list "tree"; an
\* empty pattern stands for None
get_structure(idx, path, depth, include_hidden, pattern) ==
    LET base_path == StripSlash(path)
        max_depth == MaxDepthOf(path, depth)
        selected ==
            {node \in TreeNodes :
                /\ idx[node].type # "none"
                /\ base_path # <<>> =>
                      \/ PathStr(node) = base_path
                      \/ LikeMatch(base_path \o <<"/", "%">>, PathStr(node))
                /\ idx[node].depth <= max_depth}
        rows == OrderedRows({[path |-> PathStr(node), name |-> idx[node].name,
                              type |-> idx[node].type] : node \in selected})
        keep(row) ==
            /\ include_hidden \/ ~StartsWithDot(row.name)
            /\ pattern = <<>> \/ GlobMatch(pattern, row.name)
    IN  SelectSeq(rows, keep)

NoStructureCall ==
    [ called |-> FALSE, path |-> <<>>, depth |-> 0, include_hidden |-> FALSE,
      pattern |-> <<>>, tree |-> <<>> ]

InitTree ==
    /\ AdapterIdle
    /\ pv = NoPathCall
    /\ gw = [ op |-> "tree", fs |-> [node \in TreeNodes |-> "none"],
              idx |-> [node \in TreeNodes |-> NoRow], pending |-> {},
              result |-> NoStructureCall ]

\* a node can be created: it is absent and its parent is a directory
Creatable(fs, node) ==
    fs[node] = "none" /\ (IF Len(node) = 1 THEN TRUE ELSE fs[Parent(node)] = "dir")

\* nothing exists below the node
Leaf(fs, node) ==
    \A other \in TreeNodes :
        (Len(other) > Len(node) /\ SubSeq(other, 1, Len(node)) = node) => fs[other] = "none"

\* a file or directory is created in the workspace: on_created
FsCreate(node, type) ==
    /\ gw.op = "tree"
    /\ Creatable(gw.fs, node)
    /\ Cardinality(gw.pending \cup {node}) <= MaxPendingEvents
    /\ gw' = [gw EXCEPT !.fs[node] = type, !.pending = @ \cup {node},
                        !.result = NoStructureCall]
    /\ UNCHANGED <<now, cfg, storeVars, callVars, toolVars, pv>>

\* a file or an empty directory is removed: on_deleted
FsDelete(node) ==
    /\ gw.op = "tree"
    /\ gw.fs[node] # "none"
    /\ Leaf(gw.fs, node)
    /\ Cardinality(gw.pending \cup {node}) <= MaxPendingEvents
    /\ gw' = [gw EXCEPT !.fs[node] = "none", !.pending = @ \cup {node},
                        !.result = NoStructureCall]
    /\ UNCHANGED <<now, cfg, storeVars, callVars, toolVars, pv>>

\* a file is written: on_modified (events of directories are ignored)
FsModify(node) ==
    /\ gw.op = "tree"
    /\ gw.fs[node] = "file"
    /\ Cardinality(gw.pending \cup {node}) <= MaxPendingEvents
    /\ gw' = [gw EXCEPT !.pending = @ \cup {node}, !.result = NoStructureCall]
    /\ UNCHANGED <<now, cfg, storeVars, callVars, toolVars, pv>>

\* a file or an empty directory is renamed: on_moved
FsMove(src, dest) ==
    /\ gw.op = "tree"
    /\ gw.fs[src] # "none"
    /\ Leaf(gw.fs, src)
    /\ Creatable(gw.fs, dest)
    /\ Cardinality(gw.pending \cup {src, dest}) <= MaxPendingEvents
    /\ gw' = [gw EXCEPT !.fs = [gw.fs EXCEPT ![src] = "none", ![dest] = gw.fs[src]],
                        !.pending = @ \cup {src, dest},
                        !.result = NoStructureCall]
    /\ UNCHANGED <<now, cfg, storeVars, callVars, toolVars, pv>>

\* the debounce timer fires: _flush_updates
FlushUpdates ==
    /\ gw.op = "tree"
    /\ gw.pending # {}
    /\ gw' = [gw EXCEPT !.idx = flush_updates(gw.idx, gw.fs, gw.pending),
                        !.pending = {},
                        !.result = NoStructureCall]
    /\ UNCHANGED <<now, cfg, storeVars, callVars, toolVars, pv>>

\* start() or POST /index/refresh: _full_reindex
FullReindex ==
    /\ gw.op = "tree"
    /\ gw' = [gw EXCEPT !.idx = full_reindex(gw.fs), !.result = NoStructureCall]
    /\ UNCHANGED <<now, cfg, storeVars, callVars, toolVars, pv>>

\* paths, depths and patterns asked of get_structure
StructurePaths == { <<>>, <<"/", "a", "/">> }
StructureDepths == {0, 9}
StructurePatterns == { <<>>, <<"a", "*">> }

\* get_structure is called
GetStructure(path, depth, include_hidden, pattern) ==
    /\ gw.op = "tree"
    /\ gw' = [gw EXCEPT !.result =
                [ called |-> TRUE, path |-> path, depth |-> depth,
                  include_hidden |-> include_hidden, pattern |-> pattern,
                  tree |-> get_structure(gw.idx, path, depth, include_hidden, pattern) ]]
    /\ UNCHANGED <<now, cfg, storeVars, callVars, toolVars, pv>>

NextTree ==
    \/ \E node \in TreeNodes, type \in {"file", "dir"} : FsCreate(node, type)
    \/ \E node \in TreeNodes : FsDelete(node)
    \/ \E node \in TreeNodes : FsModify(node)
    \/ \E src \in TreeNodes, dest \in TreeNodes : FsMove(src, dest)
    \/ FlushUpdates
    \/ FullReindex
    \/ \E path \in StructurePaths, depth \in StructureDepths,
          include_hidden \in BOOLEAN, pattern \in StructurePatterns :
          GetStructure(path, depth, include_hidden, pattern)

SpecTree == InitTree /\ [][NextTree]_vars

\* the node of an entry of the returned tree
EntryNode(entry) == PathParts(entry.path)

StructureReturned == gw.op = "tree" /\ gw.result.called

\* C25: get_structure(path, depth), depth clamped to 1..5, returns no entry
\* whose stored depth exceeds base_depth + depth, base_depth being the number
\* of segments of path, whatever re-indexes and flushes built the index.
C25_DepthBound ==
    StructureReturned =>
        \A i \in 1..Len(gw.result.tree) :
            gw.idx[EntryNode(gw.result.tree[i])].depth
               <= Len(PathParts(gw.result.path))
                    + (IF gw.result.depth < 1 THEN 1
                       ELSE IF gw.result.depth > 5 THEN 5 ELSE gw.result.depth)

\* C25 witness: the index holds a row two levels below the workspace root, put
\* there by a flush, and a call for "a" with depth 1 returned it while a call
\* cannot return anything deeper.
C25_Witness ==
    /\ StructureReturned
    /\ gw.result.path = <<"/", "a", "/">>
    /\ gw.result.depth = 0
    /\ gw.result.include_hidden
    /\ \E i \in 1..Len(gw.result.tree) : gw.idx[EntryNode(gw.result.tree[i])].depth = 2
    /\ \E node \in TreeNodes : gw.fs[node] # "none" /\ node \notin WalkEntries(gw.fs)

\* an entry is hidden: its name, or the name of a directory above it, starts
\* with a dot
HiddenEntry(entry) == \E k \in 1..Len(EntryNode(entry)) : StartsWithDot(EntryNode(entry)[k])

\* C26: with include_hidden=false get_structure returns no hidden entry,
\* after any sequence of re-indexes and flushes.
C26_NoHiddenEntry ==
    (StructureReturned /\ ~gw.result.include_hidden) =>
        \A i \in 1..Len(gw.result.tree) : ~HiddenEntry(gw.result.tree[i])

\* what get_structure does: with include_hidden=false no returned entry has
\* a name that starts with a dot
C26_NoHiddenName ==
    (StructureReturned /\ ~gw.result.include_hidden) =>
        \A i \in 1..Len(gw.result.tree) : ~StartsWithDot(gw.result.tree[i].name)

\* C27: the returned entries are ordered directories first, then files, and
\* by path within each kind.
C27_DirectoriesFirst ==
    StructureReturned =>
        \A i, j \in 1..Len(gw.result.tree) :
            i < j =>
                /\ ~(gw.result.tree[i].type = "file" /\ gw.result.tree[j].type = "dir")
                /\ gw.result.tree[i].type = gw.result.tree[j].type
                      => StrLess(gw.result.tree[i].path, gw.result.tree[j].path)

\* what get_structure does: files first, then directories, by path within
\* each kind
C27_FilesFirst ==
    StructureReturned =>
        \A i, j \in 1..Len(gw.result.tree) :
            i < j =>
                /\ ~(gw.result.tree[i].type = "dir" /\ gw.result.tree[j].type = "file")
                /\ gw.result.tree[i].type = gw.result.tree[j].type
                      => StrLess(gw.result.tree[i].path, gw.result.tree[j].path)

(***************************************************************************)
(* services/gateway_audit_log.py: writing the audit journal.  The state of *)
(* the disk is two facts: the directory of the journal exists or can be    *)
(* created, and the journal file can be opened for appending.              *)
(***************************************************************************)
MaxAuditEntries == 2   \* audit calls of a run

AuditResults == {"success", "failure", "blocked"}

NoAuditCall == [called |-> FALSE, result |-> "-", failing |-> FALSE, outcome |-> "-"]

InitAudit ==
    /\ AdapterIdle
    /\ pv = NoPathCall
    /\ \E dir_ok \in BOOLEAN, file_ok \in BOOLEAN :
          gw = [ op |-> "audit", dir_ok |-> dir_ok, file_ok |-> file_ok,
                 instance |-> FALSE, journal |-> <<>>, logged |-> <<>>, calls |-> 0,
                 call |-> NoAuditCall ]

\* the disk changes: permissions, free space, a removed directory
DiskChange(dir_ok, file_ok) ==
    /\ gw.op = "audit"
    /\ <<dir_ok, file_ok>> # <<gw.dir_ok, gw.file_ok>>
    /\ gw' = [gw EXCEPT !.dir_ok = dir_ok, !.file_ok = file_ok, !.call = NoAuditCall]
    /\ UNCHANGED <<now, cfg, storeVars, callVars, toolVars, pv>>

\* get_audit_logger().log(...) of a gateway operation: the first call
\* constructs the instance, whose __init__ creates the directory outside any
\* try; log appends inside try/except Exception and hands a failed entry to
\* the process logger
AuditLog(result) ==
    /\ gw.op = "audit"
    /\ gw.calls < MaxAuditEntries
    /\ LET constructed == gw.instance \/ gw.dir_ok
           written == constructed /\ gw.dir_ok /\ gw.file_ok
       IN  gw' = [gw EXCEPT
                    !.instance = constructed,
                    !.calls = gw.calls + 1,
                    !.journal = (IF written THEN Append(gw.journal, result) ELSE gw.journal),
                    !.logged = (IF constructed /\ ~written THEN Append(gw.logged, result)
                                ELSE gw.logged),
                    !.call = [ called |-> TRUE, result |-> result,
                               failing |-> ~(gw.dir_ok /\ gw.file_ok),
                               outcome |-> IF constructed THEN "returned" ELSE "raised" ] ]
    /\ UNCHANGED <<now, cfg, storeVars, callVars, toolVars, pv>>

NextAudit ==
    \/ \E dir_ok \in BOOLEAN, file_ok \in BOOLEAN : DiskChange(dir_ok, file_ok)
    \/ \E result \in AuditResults : AuditLog(result)

SpecAudit == InitAudit /\ [][NextAudit]_vars

\* an audit call was made while the journal could not be written
AuditWriteFailed == gw.op = "audit" /\ gw.call.called /\ gw.call.failing

\* C29: a failure while writing an audit entry never propagates: the audit
\* call returns normally and the entry is handed to the process logger and
\* dropped from the journal.
C29_AuditFailureContained ==
    AuditWriteFailed =>
        /\ gw.call.outcome = "returned"
        /\ gw.logged # <<>> /\ gw.logged[Len(gw.logged)] = gw.call.result

\* what the logger does: a failure is contained once the instance exists;
\* a call that has to construct it while the directory cannot be created
\* raises, and its entry reaches neither the journal nor the process logger
C29_AuditFailureContainedOnceConstructed ==
    AuditWriteFailed =>
        IF gw.instance
        THEN /\ gw.call.outcome = "returned"
             /\ gw.logged # <<>> /\ gw.logged[Len(gw.logged)] = gw.call.result
        ELSE /\ gw.call.outcome = "raised"
             /\ gw.journal = <<>> /\ gw.logged = <<>>

(***************************************************************************)
(* main.py and the routers: the gateway is one uvicorn process with one    *)
(* event loop.  Every handler is an async def that awaits nothing, so a    *)
(* handler runs on the loop from its first line to its return;             *)
(* execute_command calls subprocess.run there and stays in it until the    *)
(* command ends or its timeout expires.                                    *)
(***************************************************************************)
MaxRequests == 3   \* requests of a run

RequestIds == 1..MaxRequests

\* POST /execute, GET /health, POST /read, POST /structure
RequestKinds == {"execute", "health", "read", "structure"}

NoRequest == [kind |-> "-", status |-> "absent"]

InitLoop ==
    /\ AdapterIdle
    /\ pv = NoPathCall
    /\ gw = [ op |-> "loop", req |-> [r \in RequestIds |-> NoRequest],
              running |-> 0, remaining |-> 0 ]

\* a client sends a request: the connection waits for the loop
Arrive(r, kind) ==
    /\ gw.op = "loop"
    /\ gw.req[r].status = "absent"
    /\ gw' = [gw EXCEPT !.req[r] = [kind |-> kind, status |-> "waiting"]]
    /\ UNCHANGED <<now, cfg, storeVars, callVars, toolVars, pv>>

\* the loop runs execute_command up to subprocess.run, which returns after
\* the seconds the command takes, at most the timeout
RunCommand(r, seconds) ==
    /\ gw.op = "loop"
    /\ gw.running = 0
    /\ gw.req[r] = [kind |-> "execute", status |-> "waiting"]
    /\ gw' = [gw EXCEPT !.req[r].status = "running", !.running = r,
                        !.remaining = seconds]
    /\ UNCHANGED <<now, cfg, storeVars, callVars, toolVars, pv>>

\* a second passes inside subprocess.run
Elapse ==
    /\ gw.op = "loop"
    /\ gw.running # 0
    /\ gw.remaining > 0
    /\ gw' = [gw EXCEPT !.remaining = gw.remaining - 1]
    /\ UNCHANGED <<now, cfg, storeVars, callVars, toolVars, pv>>

\* subprocess.run returns or raises TimeoutExpired: the response is built
\* and the loop is free again
CommandReturns ==
    /\ gw.op = "loop"
    /\ gw.running # 0
    /\ gw.remaining = 0
    /\ gw' = [gw EXCEPT !.req[gw.running].status = "done", !.running = 0]
    /\ UNCHANGED <<now, cfg, storeVars, callVars, toolVars, pv>>

\* the loop runs the handler of another request, which returns at once
Handle(r) ==
    /\ gw.op = "loop"
    /\ gw.running = 0
    /\ gw.req[r].status = "waiting"
    /\ gw.req[r].kind # "execute"
    /\ gw' = [gw EXCEPT !.req[r].status = "done"]
    /\ UNCHANGED <<now, cfg, storeVars, callVars, toolVars, pv>>

NextLoop ==
    \/ \E r \in RequestIds, kind \in RequestKinds : Arrive(r, kind)
    \/ \E r \in RequestIds, seconds \in 0..MaxTimeout : RunCommand(r, seconds)
    \/ Elapse
    \/ CommandReturns
    \/ \E r \in RequestIds : Handle(r)

SpecLoop == InitLoop /\ [][NextLoop]_vars

\* a command is running and has time left
CommandRunning == gw.op = "loop" /\ gw.running # 0 /\ gw.remaining > 0

\* C28: while one /execute command is running, the gateway still completes
\* other requests such as /health, /read or /structure: the handler of a
\* waiting request can run.
C28_OthersProgressWhileExecuting ==
    CommandRunning =>
        \A r \in RequestIds :
            (gw.req[r].status = "waiting" /\ gw.req[r].kind # "execute")
                => ENABLED Handle(r)

\* what the gateway does: while a command is running no request completes;
\* the requests that arrive wait until subprocess.run has returned
C28_NothingCompletesWhileExecuting ==
    [][CommandRunning =>
          \A r \in RequestIds : gw'.req[r].status = "done" => gw.req[r].status = "done"]_vars

\* a /health request is waiting while a command runs
C28_HealthWaitsForCommand ==
    /\ CommandRunning
    /\ \E r \in RequestIds : gw.req[r] = [kind |-> "health", status |-> "waiting"]

(***************************************************************************)
(* routers/execute.py: the answer to a blocked command.                    *)
(***************************************************************************)
\* DANGEROUS_PATTERNS in the order of the list
DangerousPatternList ==
    << <<"|", " ", "s", "h">>, <<"|", " ", "b", "a", "s", "h">>, <<"|", " ", "z", "s", "h">>, <<BackQuote>>, <<"$", "(">>,
       <<">", " ", "/", "d", "e", "v", "/">>, <<">", ">", " ", "/", "d", "e", "v", "/">>,
       <<"/", "e", "t", "c", "/">>, <<"/", "v", "a", "r", "/">>, <<"/", "u", "s", "r", "/">>,
       <<"~", "/", ".", "s", "s", "h">>, <<"~", "/", ".", "g", "n", "u", "p", "g">> >>

\* the detail of the HTTPException validate_command raises, empty when the
\* command passes
validation_detail(command) ==
    LET parts == ShlexSplit(command)
        found == {i \in DOMAIN DangerousPatternList : Contains(command, DangerousPatternList[i])}
    IN  IF ~parts.ok THEN <<"I", "n", "v", "a", "l", "i", "d", " ", "c", "o", "m", "m", "a", "n", "d", " ", "s", "y", "n", "t", "a", "x">>
        ELSE IF parts.empty THEN <<"E", "m", "p", "t", "y", " ", "c", "o", "m", "m", "a", "n", "d">>
        ELSE IF LastSlashPart(parts.first) \in GatewayBlockedCommands
        THEN <<"C", "o", "m", "m", "a", "n", "d", " ", "b", "l", "o", "c", "k", "e", "d", " ", "f", "o", "r", " ", "s", "e", "c", "u", "r", "i", "t", "y", ":", " ">> \o LastSlashPart(parts.first)
        ELSE IF found # {}
        THEN <<"C", "o", "m", "m", "a", "n", "d", " ", "c", "o", "n", "t", "a", "i", "n", "s", " ", "b", "l", "o", "c", "k", "e", "d", " ", "p", "a", "t", "t", "e", "r", "n", ":", " ">>
                \o DangerousPatternList[CHOOSE i \in found : \A j \in found : i <= j]
        ELSE <<>>

\* the base command is in the blocked set, or the command contains a
\* pipe-to-shell, command-substitution, device-write or system-directory
\* token
NamesBlockedCommand(command) ==
    \/ LastSlashPart(FirstWord(Strip(command))) \in GatewayBlockedCommands
    \/ \E pattern \in DANGEROUS_PATTERNS : Contains(command, pattern)

ExecuteAnswered == gw.op = "execute" /\ gw.pc = "done"

\* C30: POST /execute with a command whose base command is blocked, or that
\* contains a dangerous token, is answered with status 400 or 403 and a
\* detail containing 'blocked', and no subprocess is spawned for it.
C30_BlockedAnswer ==
    (ExecuteAnswered /\ NamesBlockedCommand(gw.command)) =>
        /\ gw.resp.status \in {400, 403}
        /\ Contains(Lower(validation_detail(gw.command)), <<"b", "l", "o", "c", "k", "e", "d">>)
        /\ ~gw.ran

\* what the gateway does: such a command is never spawned and is answered
\* 400 or 403; the detail contains 'blocked' when the quotes of the command
\* are balanced, and is 'Invalid command syntax' when they are not
C30_BlockedNeverSpawned ==
    (ExecuteAnswered /\ NamesBlockedCommand(gw.command)) =>
        /\ gw.resp.status \in {400, 403}
        /\ ~gw.ran
        /\ IF ShlexSplit(gw.command).ok
           THEN gw.resp.status = 403
                /\ Contains(Lower(validation_detail(gw.command)), <<"b", "l", "o", "c", "k", "e", "d">>)
           ELSE gw.resp.status = 400
                /\ validation_detail(gw.command) = <<"I", "n", "v", "a", "l", "i", "d", " ", "c", "o", "m", "m", "a", "n", "d", " ", "s", "y", "n", "t", "a", "x">>

\* a blocked command with balanced quotes was answered 403
C30_BlockedAnswered403 ==
    /\ ExecuteAnswered
    /\ NamesBlockedCommand(gw.command)
    /\ gw.resp.status = 403

(***************************************************************************)
(* clients/secrets: the singleton of the secrets backend.  The disk is     *)
(* four facts, one per step of SOPSBackend.init: the age key passes, the   *)
(* secrets file passes, sops decrypts, the schema validates.               *)
(***************************************************************************)
MaxSecretsCalls == 3   \* calls of get_secrets_backend and get in a run

InitSteps == 1..4

NoBackend == [exists |-> FALSE, steps |-> 0, initialized |-> FALSE, decrypted |-> FALSE]

NoSecretsCall == [kind |-> "-", outcome |-> "-", ready |-> FALSE]

\* the number of steps of init that complete: all steps before the first
\* one that raises
StepsCompleted(passes) ==
    IF \A step \in InitSteps : passes[step] THEN 4
    ELSE (CHOOSE step \in InitSteps : ~passes[step] /\ \A before \in 1..(step - 1) : passes[before]) - 1

\* SOPSBackend() followed by init(): self._secrets is assigned by step 3,
\* self._initialized after step 4
init(passes) ==
    [ exists |-> TRUE, steps |-> StepsCompleted(passes),
      initialized |-> StepsCompleted(passes) = 4,
      decrypted |-> StepsCompleted(passes) >= 3 ]

InitSecrets ==
    /\ AdapterIdle
    /\ pv = NoPathCall
    /\ \E passes \in [InitSteps -> BOOLEAN] :
          gw = [ op |-> "secrets", passes |-> passes, backend |-> NoBackend,
                 calls |-> 0, call |-> NoSecretsCall ]

\* the operator repairs or breaks the key, the file or the schema
DiskRepair(passes) ==
    /\ gw.op = "secrets"
    /\ passes # gw.passes
    /\ gw' = [gw EXCEPT !.passes = passes, !.call = NoSecretsCall]
    /\ UNCHANGED <<now, cfg, storeVars, callVars, toolVars, pv>>

\* get_secrets_backend(): the singleton is assigned before init() runs, and
\* stays assigned when init() raises
get_secrets_backend(backend, passes) ==
    IF backend.exists
    THEN [backend |-> backend, outcome |-> "returned"]
    ELSE [backend |-> init(passes),
          outcome |-> IF init(passes).initialized THEN "returned" ELSE "raised"]

\* a caller asks for the backend
GetSecretsBackend ==
    /\ gw.op = "secrets"
    /\ gw.calls < MaxSecretsCalls
    /\ LET got == get_secrets_backend(gw.backend, gw.passes)
       IN  gw' = [gw EXCEPT !.backend = got.backend, !.calls = gw.calls + 1,
                            !.call = [ kind |-> "get_secrets_backend",
                                       outcome |-> got.outcome,
                                       ready |-> got.backend.initialized ]]
    /\ UNCHANGED <<now, cfg, storeVars, callVars, toolVars, pv>>

\* a holder of the backend calls get(path); found tells whether the path
\* names a string of the decrypted file
SecretsGet(found) ==
    /\ gw.op = "secrets"
    /\ gw.calls < MaxSecretsCalls
    /\ gw.backend.exists
    /\ gw' = [gw EXCEPT !.calls = gw.calls + 1,
                        !.call = [ kind |-> "get",
                                   outcome |-> IF gw.backend.initialized /\ found
                                               THEN "returned" ELSE "raised",
                                   ready |-> gw.backend.initialized ]]
    /\ UNCHANGED <<now, cfg, storeVars, callVars, toolVars, pv>>

NextSecrets ==
    \/ \E passes \in [InitSteps -> BOOLEAN] : DiskRepair(passes)
    \/ GetSecretsBackend
    \/ \E found \in BOOLEAN : SecretsGet(found)

SpecSecrets == InitSecrets /\ [][NextSecrets]_vars

\* C31: get_secrets_backend() either raises or returns a backend for which
\* is_ready() is true, on the first call and on every later call, even after
\* an earlier call failed during init; a backend whose init did not complete
\* all four steps never serves get().
C31_RaisesOrReady ==
    gw.op = "secrets" =>
        /\ (gw.call.kind = "get_secrets_backend" /\ gw.call.outcome = "returned")
              => gw.call.ready
        /\ (gw.call.kind = "get" /\ gw.call.outcome = "returned")
              => gw.backend.steps = 4

\* what the module does: a call that runs init raises or returns a ready
\* backend; a call after a failed init returns the backend that init left
\* unready, for which get() raises
C31_FirstCallRaisesOrReady ==
    gw.op = "secrets" =>
        /\ (gw.call.kind = "get_secrets_backend" /\ gw.call.outcome = "returned")
              => (gw.call.ready \/ gw.calls > 1)
        /\ (gw.call.kind = "get" /\ gw.call.outcome = "returned")
              => gw.backend.steps = 4

\* a later call returned the backend of a failed init
C31_UnreadyReturned ==
    /\ gw.op = "secrets"
    /\ gw.call.kind = "get_secrets_backend"
    /\ gw.call.outcome = "returned"
    /\ ~gw.call.ready

(***************************************************************************)
(* _flush_updates over a workspace with a name made of a LIKE wildcard.    *)
(***************************************************************************)
\* names of the first level: a plain one and one that is the wildcard _
FlushNames == { <<"a">>, <<"_">> }

FlushNodes ==
    {node \in UNION { [1..n -> FlushNames \cup ChildNames] : n \in 1..MaxTreeDepth } :
        /\ node[1] \in FlushNames
        /\ \A k \in 2..Len(node) : node[k] \in ChildNames}

\* node lies below p
Descendant(node, p) == Len(node) > Len(p) /\ SubSeq(node, 1, Len(p)) = p

\* the trees a workspace can hold: what exists below the root has a
\* directory above it
Workspaces ==
    {fs \in [FlushNodes -> {"none", "file", "dir"}] :
        \A node \in FlushNodes :
            (fs[node] # "none" /\ Len(node) > 1) => fs[Parent(node)] = "dir"}

\* one turn of the loop of _flush_updates, for the pending path p
flush_one(idx, fs, p) ==
    [node \in FlushNodes |->
        IF fs[p] # "none"
        THEN IF node = p THEN Row(p, fs[p]) ELSE idx[node]
        ELSE IF PathStr(node) = PathStr(p)
                  \/ LikeMatch(PathStr(p) \o <<"/", "%">>, PathStr(node))
             THEN NoRow
             ELSE idx[node]]

RECURSIVE flush_in_order(_, _, _)
\* the loop of _flush_updates over the copied set, in its iteration order
flush_in_order(idx, fs, order) ==
    IF order = <<>> THEN idx
    ELSE flush_in_order(flush_one(idx, fs, Head(order)), fs, Tail(order))

\* the index is the one a scan of an earlier tree left; some paths changed
\* since and are pending
InitFlush ==
    /\ AdapterIdle
    /\ pv = NoPathCall
    /\ \E fs \in Workspaces, earlier \in Workspaces :
       \E paths \in {S \in SUBSET FlushNodes : S # {} /\ Cardinality(S) <= MaxPendingEvents} :
          gw = [ op |-> "flush", fs |-> fs,
                 before |-> [node \in FlushNodes |->
                               IF earlier[node] # "none" THEN Row(node, earlier[node]) ELSE NoRow],
                 idx |-> [node \in FlushNodes |->
                               IF earlier[node] # "none" THEN Row(node, earlier[node]) ELSE NoRow],
                 pending |-> paths, flushed |-> {} ]

\* the debounce timer fires: _flush_updates
FlushPending(order) ==
    /\ gw.op = "flush"
    /\ gw.pending # {}
    /\ gw' = [gw EXCEPT !.idx = flush_in_order(gw.idx, gw.fs, order),
                        !.pending = {}, !.flushed = gw.pending]
    /\ UNCHANGED <<now, cfg, storeVars, callVars, toolVars, pv>>

NextFlush == \E order \in IterationOrders(gw.pending) : FlushPending(order)

SpecFlush == InitFlush /\ [][NextFlush]_vars

Flushed == gw.op = "flush" /\ gw.flushed # {}

\* C32: the flush handles every path of the pending set: for a path that
\* exists the row equals a fresh stat of it, for a path that no longer exists
\* its row and the rows of its descendants are removed; the rows of every
\* other path are left unchanged, siblings with a name that differs from the
\* path only at a _ or % included.
C32_FlushFrame ==
    Flushed =>
        \A node \in FlushNodes :
            IF node \in gw.flushed /\ gw.fs[node] # "none"
            THEN gw.idx[node] = Row(node, gw.fs[node])
            ELSE IF \E p \in gw.flushed :
                       gw.fs[p] = "none" /\ (node = p \/ Descendant(node, p))
            THEN gw.idx[node] = NoRow
            ELSE gw.idx[node] = gw.before[node]

\* what the flush does: as C32, but the rows whose path matches the LIKE
\* pattern of a removed path, with _ and % of its name as wildcards, are
\* removed as well, unless the flush wrote them after that removal
C32_FlushFrameLike ==
    Flushed =>
        \A node \in FlushNodes :
            IF \E p \in gw.flushed :
                  /\ gw.fs[p] = "none"
                  /\ ~(node = p \/ Descendant(node, p))
                  /\ LikeMatch(PathStr(p) \o <<"/", "%">>, PathStr(node))
            THEN gw.idx[node] = NoRow
                    \/ (node \in gw.flushed /\ gw.idx[node] = Row(node, gw.fs[node]))
            ELSE IF node \in gw.flushed /\ gw.fs[node] # "none"
            THEN gw.idx[node] = Row(node, gw.fs[node])
            ELSE IF \E p \in gw.flushed :
                       gw.fs[p] = "none" /\ (node = p \/ Descendant(node, p))
            THEN gw.idx[node] = NoRow
            ELSE gw.idx[node] = gw.before[node]

\* the row of a/a went away with the removal of the directory _
C32_SiblingRowRemoved ==
    /\ Flushed
    /\ gw.flushed = { << <<"_">> >> }
    /\ gw.before[<< <<"a">>, <<"a">> >>] # NoRow
    /\ gw.idx[<< <<"a">>, <<"a">> >>] = NoRow

(***************************************************************************)
(* The debounce collector of the tree indexer: _queue_update runs on the   *)
(* thread of the filesystem observer, every threading.Timer is a thread of *)
(* its own that runs _flush_updates when it fires, and POST /index/refresh *)
(* runs _full_reindex on the thread of the event loop.  The bodies guarded *)
(* by self._lock are single steps.                                         *)
(***************************************************************************)
DebounceTicks    == 2   \* the debounce interval, in ticks of the clock
MaxEvents        == 3   \* change events of a run
MaxDebounceClock == 5   \* the clock stops here

DebouncePaths == {"p", "q"}

TimerIds == 1..MaxEvents

\* a threading.Timer: unused, armed, cancelled, fired and about to take the
\* lock in _flush_updates ("lock"), writing the rows of its paths, done
NoTimer == [state |-> "unused", deadline |-> 0, paths |-> {}]

InitDebounce ==
    /\ AdapterIdle
    /\ pv = NoPathCall
    /\ gw = [ op |-> "debounce", clock |-> 0, pending |-> {},
              queuedAt |-> [p \in DebouncePaths |-> 0],
              adds |-> [p \in DebouncePaths |-> 0],
              takes |-> [p \in DebouncePaths |-> 0],
              timer |-> [i \in TimerIds |-> NoTimer],
              current |-> 0, started |-> 0, reindexing |-> FALSE,
              lag |-> 0, sinceLast |-> 0, lastEvent |-> 0 ]

\* variant of _queue_update that starts a timer only when none was started
queue_update_once(g, path) ==
    [g EXCEPT
        !.pending = g.pending \cup {path},
        !.queuedAt[path] = IF path \in g.pending THEN g.queuedAt[path] ELSE g.clock,
        !.adds[path] = IF path \in g.pending THEN g.adds[path] ELSE g.adds[path] + 1,
        !.lastEvent = g.clock,
        !.timer = [i \in TimerIds |->
                     IF g.current = 0 /\ i = g.started + 1
                     THEN [state |-> "armed", deadline |-> g.clock + DebounceTicks, paths |-> {}]
                     ELSE g.timer[i]],
        !.current = IF g.current = 0 THEN g.started + 1 ELSE g.current,
        !.started = g.started + 1]

\* _queue_update(path): under the lock, add the path, cancel the timer that
\* self._debounce_timer names (no effect on one that has fired) and start a
\* new one
queue_update(g, path) ==
    [g EXCEPT
        !.pending = g.pending \cup {path},
        !.queuedAt[path] = IF path \in g.pending THEN g.queuedAt[path] ELSE g.clock,
        !.adds[path] = IF path \in g.pending THEN g.adds[path] ELSE g.adds[path] + 1,
        !.lastEvent = g.clock,
        !.timer = [i \in TimerIds |->
                     IF i = g.started + 1
                     THEN [state |-> "armed", deadline |-> g.clock + DebounceTicks, paths |-> {}]
                     ELSE IF i = g.current /\ g.timer[i].state = "armed"
                     THEN [g.timer[i] EXCEPT !.state = "cancelled"]
                     ELSE g.timer[i]],
        !.current = g.started + 1,
        !.started = g.started + 1]

\* the observer delivers a change event for a path
QueueUpdate(path) ==
    /\ gw.op = "debounce"
    /\ gw.started < MaxEvents
    /\ gw' = queue_update(gw, path)
    /\ UNCHANGED <<now, cfg, storeVars, callVars, toolVars, pv>>

\* time passes; an armed timer fires at its deadline
DebounceTick ==
    /\ gw.op = "debounce"
    /\ gw.clock < MaxDebounceClock
    /\ \A i \in TimerIds : gw.timer[i].state = "armed" => gw.timer[i].deadline > gw.clock
    /\ gw' = [gw EXCEPT !.clock = gw.clock + 1]
    /\ UNCHANGED <<now, cfg, storeVars, callVars, toolVars, pv>>

\* the interval of timer i has passed: its thread calls _flush_updates
TimerFires(i) ==
    /\ gw.op = "debounce"
    /\ gw.timer[i].state = "armed"
    /\ gw.timer[i].deadline <= gw.clock
    /\ gw' = [gw EXCEPT
                !.timer[i].state = "lock",
                !.lag = IF gw.pending = {} THEN 0
                        ELSE gw.clock - (CHOOSE first \in {gw.queuedAt[p] : p \in gw.pending} :
                                            \A p \in gw.pending : first <= gw.queuedAt[p]),
                !.sinceLast = gw.clock - gw.lastEvent]
    /\ UNCHANGED <<now, cfg, storeVars, callVars, toolVars, pv>>

\* _flush_updates under the lock: copy the pending set and clear it; with
\* nothing to do the thread returns
FlushTake(i) ==
    /\ gw.op = "debounce"
    /\ gw.timer[i].state = "lock"
    /\ gw' = [gw EXCEPT
                !.timer[i] = [ state |-> IF gw.pending = {} THEN "done" ELSE "writing",
                               deadline |-> gw.timer[i].deadline, paths |-> gw.pending ],
                !.takes = [p \in DebouncePaths |->
                             IF p \in gw.pending THEN gw.takes[p] + 1 ELSE gw.takes[p]],
                !.pending = {}]
    /\ UNCHANGED <<now, cfg, storeVars, callVars, toolVars, pv>>

\* _flush_updates outside the lock: one transaction for a copied path
FlushWrite(i, path) ==
    /\ gw.op = "debounce"
    /\ gw.timer[i].state = "writing"
    /\ path \in gw.timer[i].paths
    /\ gw' = [gw EXCEPT
                !.timer[i] = [ state |-> IF gw.timer[i].paths = {path} THEN "done" ELSE "writing",
                               deadline |-> gw.timer[i].deadline,
                               paths |-> gw.timer[i].paths \ {path} ]]
    /\ UNCHANGED <<now, cfg, storeVars, callVars, toolVars, pv>>

\* POST /index/refresh: _full_reindex starts its walk
RefreshStart ==
    /\ gw.op = "debounce"
    /\ ~gw.reindexing
    /\ gw' = [gw EXCEPT !.reindexing = TRUE]
    /\ UNCHANGED <<now, cfg, storeVars, callVars, toolVars, pv>>

\* _full_reindex commits its DELETE and its inserts
RefreshCommit ==
    /\ gw.op = "debounce"
    /\ gw.reindexing
    /\ gw' = [gw EXCEPT !.reindexing = FALSE]
    /\ UNCHANGED <<now, cfg, storeVars, callVars, toolVars, pv>>

NextDebounce ==
    \/ \E path \in DebouncePaths : QueueUpdate(path)
    \/ DebounceTick
    \/ \E i \in TimerIds : TimerFires(i)
    \/ \E i \in TimerIds : FlushTake(i)
    \/ \E i \in TimerIds, path \in DebouncePaths : FlushWrite(i, path)
    \/ RefreshStart
    \/ RefreshCommit

SpecDebounce == InitDebounce /\ [][NextDebounce]_vars

\* C33: the lag between a change event for a path and the flush that
\* re-indexes the path is bounded by the debounce interval, for every
\* sequence of events, a stream with a new event before each interval ends
\* included.
C33_LagBounded == gw.op = "debounce" => gw.lag <= DebounceTicks

\* what the collector does: a timer fires one debounce interval after the
\* last event, whatever the age of the oldest pending path
C33_FiresAfterLastEvent ==
    gw.op = "debounce" =>
        gw.sinceLast \in {0, DebounceTicks}

\* writers of the index in progress: the flushes that are writing, and the
\* full re-index
Writers ==
    Cardinality({i \in TimerIds : gw.timer[i].state = "writing"})
        + (IF gw.reindexing THEN 1 ELSE 0)

\* C35: the index has a single writer: at no time are two writes in
\* progress at once, neither two flushes of successive timers nor a flush
\* together with a full re-index.
C35_SingleWriter == gw.op = "debounce" => Writers <= 1

\* two flushes are writing at once
C35_TwoFlushesWriting ==
    /\ gw.op = "debounce"
    /\ Cardinality({i \in TimerIds : gw.timer[i].state = "writing"}) >= 2

\* C36: no queued path is lost: if the pending set is non-empty then a timer
\* is armed or a flush is about to acquire the lock, and every path added to
\* the pending set is handed to exactly one flush.
C36_NoPathLost ==
    gw.op = "debounce" =>
        /\ gw.pending # {} =>
              \E i \in TimerIds : gw.timer[i].state \in {"armed", "lock"}
        /\ \A p \in DebouncePaths :
              gw.adds[p] = gw.takes[p] + (IF p \in gw.pending THEN 1 ELSE 0)

\* C36 witness: a path was queued while a fired timer was about to take the
\* lock, after an earlier flush had taken a path
C36_Witness ==
    /\ gw.op = "debounce"
    /\ gw.pending # {}
    /\ \E i, j \in TimerIds :
          /\ gw.timer[i].state = "lock"
          /\ gw.timer[j].state = "armed"
          /\ gw.timer[j].deadline > gw.timer[i].deadline
    /\ \E p \in DebouncePaths : gw.takes[p] > 0

\* every change event has been flushed
TreeQuiet == gw.op = "tree" /\ gw.pending = {}

\* C34: once change events stop and every armed timer has fired, the set of
\* index rows equals the set of non-hidden files and directories present in
\* the workspace, for every interleaving of events, flushes and full
\* re-indexes.
C34_EventuallyConsistent ==
    TreeQuiet =>
        \A node \in TreeNodes :
            gw.idx[node] = (IF node \in WalkEntries(gw.fs) THEN Row(node, gw.fs[node])
                            ELSE NoRow)

\* what the indexer reaches: every row is the row of a path that is present,
\* and every non-hidden path that is present has its row; paths with a
\* hidden segment have a row or not, depending on what wrote last
C34_RowsOfPresentPaths ==
    TreeQuiet =>
        \A node \in TreeNodes :
            /\ gw.idx[node] # NoRow => gw.idx[node] = Row(node, gw.fs[node])
            /\ node \in WalkEntries(gw.fs) => gw.idx[node] = Row(node, gw.fs[node])

\* quiet, with the row of a hidden directory in the index
C34_HiddenRowAtRest ==
    /\ TreeQuiet
    /\ gw.idx[<< <<".", "h">> >>] # NoRow

(***************************************************************************)
(* The per-user index under requests with TTLs of their own.               *)
(***************************************************************************)
\* ttl_seconds passed to queue_approval; 0 stands for None
IndexTTLs == {0, 30, 120}

NoPendingCall == [called |-> FALSE, user |-> "-", ids |-> {}]

\* get_pending_for_user(u): the ids of the requests returned, and the index
\* after the ids without a record were removed from it
get_pending_for_user(store, index, u) ==
    LET approval_ids == index[u].ids
        expired_ids == {id \in approval_ids : StoreGet(store, id) = None}
    IN  [ ids |-> {id \in approval_ids :
                      StoreGet(store, id) # None /\ StoreGet(store, id).status = "pending"},
          index |-> [index EXCEPT ![u] = [ids |-> index[u].ids \ expired_ids,
                                          exp |-> index[u].exp]] ]

InitIndex ==
    /\ AdapterIdle
    /\ pv = NoPathCall
    /\ gw = [ op |-> "index", now |-> 0, kv |-> [id \in PendingIds |-> None],
              index |-> [u \in Users |-> EmptyIndex], nextId |-> 1,
              last |-> NoPendingCall ]

\* queue_approval(u, ..., ttl_seconds)
IndexQueue(u, ttl_seconds) ==
    /\ gw.op = "index"
    /\ gw.nextId <= MaxPending
    /\ LET id  == gw.nextId
           ttl == EffectiveTTL(ttl_seconds)
           request == NewRequest(id, u, "execute", "prompt", ttl, gw.now)
       IN  gw' = [gw EXCEPT !.kv = StoreSetex(gw.kv, id, ttl, request, gw.now),
                            !.index = IndexAddExpire(gw.index, u, id, ttl + IndexExtraTTL, gw.now),
                            !.nextId = id + 1,
                            !.last = NoPendingCall]
    /\ UNCHANGED <<now, cfg, storeVars, callVars, toolVars, pv>>

\* time passes; keys whose TTL has elapsed disappear
IndexTick ==
    /\ gw.op = "index"
    /\ gw.now + Quantum <= MaxTime
    /\ gw' = [gw EXCEPT !.now = gw.now + Quantum,
                        !.kv = StoreExpire(gw.kv, gw.now + Quantum),
                        !.index = IndexExpire(gw.index, gw.now + Quantum),
                        !.last = NoPendingCall]
    /\ UNCHANGED <<now, cfg, storeVars, callVars, toolVars, pv>>

\* a client calls get_pending_for_user(u)
GetPendingForUser(u) ==
    /\ gw.op = "index"
    /\ gw' = [gw EXCEPT !.index = get_pending_for_user(gw.kv, gw.index, u).index,
                        !.last = [ called |-> TRUE, user |-> u,
                                   ids |-> get_pending_for_user(gw.kv, gw.index, u).ids ]]
    /\ UNCHANGED <<now, cfg, storeVars, callVars, toolVars, pv>>

NextIndex ==
    \/ \E u \in Users, ttl_seconds \in IndexTTLs : IndexQueue(u, ttl_seconds)
    \/ IndexTick
    \/ \E u \in Users : GetPendingForUser(u)

SpecIndex == InitIndex /\ [][NextIndex]_vars

\* the ids of the records of user u that exist with status pending
AlivePending(u) ==
    {id \in PendingIds :
        /\ StoreGet(gw.kv, id) # None
        /\ StoreGet(gw.kv, id).user_id = u
        /\ StoreGet(gw.kv, id).status = "pending"}

\* C37: every request whose record exists with status pending is returned
\* by get_pending_for_user of its user, after any sequence of queue_approval
\* calls with arbitrary TTLs: the index key never expires while a pending
\* record of the user is alive.
C37_PendingReturned ==
    (gw.op = "index" /\ gw.last.called) => AlivePending(gw.last.user) \subseteq gw.last.ids

\* what the service guarantees: get_pending_for_user returns the pending
\* requests of the user whose ids the index still holds, and no other
C37_IndexedPendingReturned ==
    (gw.op = "index" /\ gw.last.called) =>
        gw.last.ids = AlivePending(gw.last.user) \cap gw.index[gw.last.user].ids

\* a pending request outlived the index of its user
C37_PendingNotIndexed ==
    /\ gw.op = "index"
    /\ gw.last.called
    /\ gw.last.ids = {}
    /\ AlivePending(gw.last.user) # {}

\* the request task t queued has a record with status approved: an approve
\* call for it returned True
ApprovalAccepted(t) ==
    /\ task[t].op # "wait"
    /\ task[t].id # 0
    /\ StoreGet(kv, task[t].id) # None
    /\ StoreGet(kv, task[t].id).status = "approved"

\* C38: if approve(id) returns true for a request queued by the adapter, the
\* adapter's wait observes status approved and the operation is sent: an
\* approval is never accepted for an operation the adapter has cancelled at
\* its wait timeout.
C38_ApprovedNeverCancelled ==
    \A t \in Tasks : ApprovalAccepted(t) => task[t].result # "cancelled"

\* what the adapter does: an operation with an accepted approval is
\* cancelled only by a wait that did not see the decision: it read the
\* record while it was pending and found its time over afterwards, or it
\* found no record and the approve call wrote one later
C38_CancelledUnseen ==
    \A t \in Tasks :
        (ApprovalAccepted(t) /\ task[t].result = "cancelled") =>
            task[t].wait \in {"pending", "none"}

\* an approval was accepted for an operation the adapter cancelled
\* at its wait timeout, on a record read before the approval
C38_ApprovedButCancelled ==
    \E t \in Tasks :
        ApprovalAccepted(t) /\ task[t].result = "cancelled" /\ task[t].wait = "pending"

\* C39: check_for_approval_response(U, message) never changes the status of
\* a request whose user_id is not U: the index of U only ever holds ids of
\* requests queued for U, whatever other users queue, approve, reject or let
\* expire.
C39_OnlyOwnRequests ==
    [][gw.op = "intercept" =>
          /\ \A u \in Users : \A id \in gw.index[u].ids :
                StoreGet(gw.kv, id) # None => StoreGet(gw.kv, id).user_id = u
          /\ \A u, v \in Users : u # v => gw.index[u].ids \cap gw.index[v].ids = {}
          /\ gw'.last.called =>
                \A id \in PendingIds :
                    gw'.kv[id] # gw.kv[id] =>
                        /\ StoreGet(gw.kv, id) # None
                        /\ StoreGet(gw.kv, id).user_id = gw'.last.user]_vars

\* C39 witness: a message of one user resolved a request of that user while
\* a request of another user was pending, and that one is still pending.
C39_Witness ==
    /\ gw.op = "intercept"
    /\ gw.last.called
    /\ gw.last.answer \in {"approved", "rejected"}
    /\ StoreGet(gw.kv, gw.last.chosen).user_id = gw.last.user
    /\ \E id \in PendingIds :
          /\ StoreGet(gw.kv, id) # None
          /\ StoreGet(gw.kv, id).user_id # gw.last.user
          /\ StoreGet(gw.kv, id).status = "pending"

\* the iteration of wait_for_decision that task t ends in this step returns
WaitReturns(t) == task[t].pc = "read" /\ task'[t].pc \notin {"waiting", "read"}

\* C40: every call of wait_for_decision returns: with a positive max_wait no
\* later than the first poll after max_wait has elapsed, and with max_wait
\* absent (or 0, which is treated as absent) no later than the first poll
\* after the expiry of the record's TTL or after a decision.
C40_WaitReturns ==
    [][ \A t \in Tasks :
          /\ (task[t].pc = "waiting" /\ task'[t].pc = "read"
                /\ (now >= ExpiryOf(t) \/ decidedAt[task[t].id] # -1))
                => (task'[t].seen = None \/ task'[t].seen.status # "pending")
          /\ (task[t].pc = "read" /\ task'[t] # task[t]
                /\ \/ (task[t].max_wait > 0 /\ now - task[t].start >= task[t].max_wait)
                   \/ task[t].seen = None
                   \/ task[t].seen.status # "pending")
                => WaitReturns(t)
      ]_vars

\* C40 witness: a wait with max_wait = 0 polled on beyond time 0 and
\* returned None at the first poll after the TTL of its record had elapsed.
C40_Witness ==
    \E t \in Tasks :
        /\ task[t].op = "wait"
        /\ task[t].max_wait = 0
        /\ task[t].pc = "done"
        /\ task[t].wait = "none"
        /\ now >= ExpiryOf(t)
        /\ decidedAt[task[t].id] = -1

\* a wait of the adapter, max_wait = hitl_timeout, returned the record that
\* was still pending
C40_WitnessTimeout ==
    \E t \in Tasks :
        /\ task[t].op = "execute"
        /\ task[t].max_wait > 0
        /\ task[t].pc = "done"
        /\ task[t].wait = "pending"
        /\ now - task[t].start >= task[t].max_wait

\* The same program with a clock that goes on and an event loop that resumes
\* a sleeping wait_for_decision.
SpecSeqFair ==
    /\ Init
    /\ [][NextSeq]_vars
    /\ WF_vars(Tick)
    /\ \A t \in Tasks : WF_vars(PollRead(t)) /\ WF_vars(PollCheck(t))

\* every wait whose record expires within the time the clock covers returns
C40_EventuallyReturns ==
    \A t \in Tasks :
        (task[t].pc = "waiting" /\ ExpiryOf(t) <= MaxTime)
            ~> (task[t].pc \notin {"waiting", "read"})

====
